---------------------------- MODULE Spec2Model ----------------------------
(***************************************************************************)
(* Model of the schema-driven resume segmentation engine of worker-py:     *)
(*   src/worker-py/src/utils_sections.py  (normalised index, anchor        *)
(*       resolver, span builder, tree assembler)                           *)
(*   src/worker-py/src/app.py             (the /parse handler and its      *)
(*       quality gate)                                                     *)
(*                                                                         *)
(* A Python str is a sequence of characters; a character is a one-letter   *)
(* TLA+ string, except "ff", which stands for the ligature U+FB00 (one     *)
(* character whose str.upper() is the two characters "FF").  Offsets are   *)
(* 0-based as in the code; raw[i] of the code is raw[i + 1] here.          *)
(***************************************************************************)
EXTENDS Integers, Sequences, FiniteSets, TLC

VARIABLES
    pc,            \* position of the running call
    raw,           \* the text being processed (parse: the extracted text)
    schema,        \* the schema object of the call, or NoSchema
    needle,        \* resolver call: the anchor candidate
    start_from,    \* resolver call: start_from_raw
    occ,           \* resolver call: raw offset of the occurrence under study
    gaps,          \* whitespace inserted so far after each character of it
    found_clean,   \* resolver result on the text before any insertion
    found,         \* resolver result on the current text
    split,         \* split_resume_by_schema's locals at its return
    req,           \* parse: the request and what its paths hold
    anchor_match,  \* parse: the result of _check_schema_anchor_match
    resp,          \* parse: the ParseResp returned
    split_calls,   \* parse: how many times the splitter was called
    opt,           \* optimize_section: the call's locals and its outcome
    out_dir,       \* export: the files of the job's output directory
    exports        \* export: each request's position and version

vars == <<pc, raw, schema, needle, start_from, occ, gaps, found_clean, found,
          split, req, anchor_match, resp, split_calls, opt, out_dir, exports>>

----------------------------------------------------------------------------
(* Characters and Python's str predicates over the model's alphabet.       *)

LowerAlpha == <<"a","b","c","d","e","f","g","h","i","j","k","l","m",
                "n","o","p","q","r","s","t","u","v","w","x","y","z">>
UpperAlpha == <<"A","B","C","D","E","F","G","H","I","J","K","L","M",
                "N","O","P","Q","R","S","T","U","V","W","X","Y","Z">>
LowerLetters == {LowerAlpha[i] : i \in DOMAIN LowerAlpha}
UpperLetters == {UpperAlpha[i] : i \in DOMAIN UpperAlpha}


\* The ligature U+FB00: alphabetic, lower-case, upper() = "FF".
Ligature == "ff"

\* str.isspace() on the characters of the model.
Whitespace == {" ", "\n", "\t", "\r"}
IsSpace(ch) == ch \in Whitespace

\* str.isalpha() / str.isupper() of one character.
IsAlpha(ch) == ch \in LowerLetters \cup UpperLetters \cup {Ligature}
IsUpperCh(ch) == ch \in UpperLetters

LetterIndex(ch, alpha) == CHOOSE i \in DOMAIN alpha : alpha[i] = ch

\* ch.upper(): a string, two characters long for the ligature.
UpperCh(ch) ==
    IF ch \in LowerLetters THEN <<UpperAlpha[LetterIndex(ch, LowerAlpha)]>>
    ELSE IF ch = Ligature THEN <<"F", "F">>
    ELSE <<ch>>

\* ch.lower(): always one character for the characters of the model.
LowerCh(ch) ==
    IF ch \in UpperLetters THEN LowerAlpha[LetterIndex(ch, UpperAlpha)] ELSE ch

\* s.upper(): the characters' upper forms, concatenated.
RECURSIVE UpperStr(_)
UpperStr(s) ==
    IF s = <<>> THEN <<>>
    ELSE IF Len(s) = 1 THEN UpperCh(s[1])
    ELSE LET h == Len(s) \div 2
         IN  UpperStr(SubSeq(s, 1, h)) \o UpperStr(SubSeq(s, h + 1, Len(s)))

LowerStr(s) == [i \in DOMAIN s |-> LowerCh(s[i])]

\* re.sub(r"\s+", "", s)
StripAllWs(s) == SelectSeq(s, LAMBDA ch : ~IsSpace(ch))

Min(S) == CHOOSE x \in S : \A y \in S : x <= y
Max(S) == CHOOSE x \in S : \A y \in S : x >= y

\* hay.find(sub, start) for 0 <= start: the lowest index >= start, or -1.
Find(hay, sub, start) ==
    LET n == Len(sub)
        hits == {i \in start .. (Len(hay) - n) : SubSeq(hay, i + 1, i + n) = sub}
    IN  IF hits = {} THEN -1 ELSE Min(hits)

\* sub in hay
Contains(hay, sub) == Find(hay, sub, 0) >= 0

\* s.strip()
Strip(s) ==
    LET keep == {i \in DOMAIN s : ~IsSpace(s[i])}
    IN  IF keep = {} THEN <<>> ELSE SubSeq(s, Min(keep), Max(keep))

----------------------------------------------------------------------------
(* utils_sections.py: the normalised index and the anchor resolver.        *)

\* The three lists the loop of _build_norm_map builds: every character that
\* is not whitespace appends its upper form to norm and its raw index to
\* norm_to_raw; raw_to_norm[ri] is the number of raw indices appended before
\* ri, and has len(raw) + 1 entries.
NormMapOf(text) ==
    LET raw_indices == [i \in 1 .. Len(text) |-> i - 1]
        norm_to_raw == SelectSeq(raw_indices, LAMBDA ri : ~IsSpace(text[ri + 1]))
        kept == {norm_to_raw[i] : i \in DOMAIN norm_to_raw}
    IN  [norm |-> UpperStr(StripAllWs(text)),
         norm_to_raw |-> norm_to_raw,
         raw_to_norm |-> [i \in 1 .. Len(text) + 1 |->
                            Cardinality({ri \in kept : ri < i - 1})]]

\* A norm map that strips blanks only, keeping line breaks in the index.
BuildNormMapKeepingNewlines(text) ==
    LET raw_indices == [i \in 1 .. Len(text) |-> i - 1]
        norm_to_raw == SelectSeq(raw_indices, LAMBDA ri : text[ri + 1] # " ")
        kept == {norm_to_raw[i] : i \in DOMAIN norm_to_raw}
    IN  [norm |-> UpperStr(SelectSeq(text, LAMBDA ch : ch # " ")),
         norm_to_raw |-> norm_to_raw,
         raw_to_norm |-> [i \in 1 .. Len(text) + 1 |->
                            Cardinality({ri \in kept : ri < i - 1})]]

_build_norm_map(text) == NormMapOf(text)

_find_heading_idx_fuzzy(text, cand, start_from_raw, norm_pack) ==
    IF cand = <<>> THEN -1
    ELSE LET n == UpperStr(StripAllWs(cand))
         IN  IF n = <<>> THEN -1
             ELSE LET sfr == Max({0, Min({Len(text), start_from_raw})})
                      start_norm == norm_pack.raw_to_norm[sfr + 1]
                      pos == Find(norm_pack.norm, n, Max({0, start_norm}))
                  IN  IF pos < 0 THEN -1
                      ELSE IF pos >= Len(norm_pack.norm_to_raw) THEN -1
                      ELSE norm_pack.norm_to_raw[pos + 1]

----------------------------------------------------------------------------
(* Schema values.  None is the text NoneT; an anchor field is tagged by    *)
(* its JSON type, since the code branches on isinstance.                   *)

NoneT == <<"<None>">>

NoVal == [kind |-> "none", v |-> <<>>]
StrVal(s) == [kind |-> "str", v |-> s]
ListVal(l) == [kind |-> "list", v |-> l]

NoAnchors == [kind |-> "none", start |-> NoVal, end |-> NoVal]
AnchorsDict(s, e) == [kind |-> "dict", start |-> s, end |-> e]

\* A section descriptor with the fields the code reads.
Section(id, title, parentId, isGroup, anchors, start, end, anchor) ==
    [id |-> id, title |-> title, parentId |-> parentId, isGroup |-> isGroup,
     anchors |-> anchors, start |-> start, end |-> end, anchor |-> anchor,
     pattern |-> NoVal, match |-> NoVal, is_dict |-> TRUE]

\* A leaf (or group entry) of the current schema style: anchors.start/end lists.
AnchoredSection(id, parentId, isGroup, startList, endList) ==
    Section(id, NoneT, parentId, isGroup,
            AnchorsDict(ListVal(startList), ListVal(endList)), NoVal, NoVal, NoVal)

Group(id, title) == [id |-> id, title |-> title, is_dict |-> TRUE]

\* An entry of schema.sections / schema.groups that is not an object (a
\* string, a number): it has no .get.
NonObjectSection ==
    [Section(<<>>, NoneT, NoneT, FALSE, NoAnchors, NoVal, NoVal, NoVal)
        EXCEPT !.is_dict = FALSE]
NonObjectGroup == [Group(<<>>, NoneT) EXCEPT !.is_dict = FALSE]

\* A schema object.  groups_kind / sections_kind tell what the key holds:
\* "list", "missing" (absent or None), "falsy" (a falsy value that is
\* neither, such as "" or 0) or "other" (a truthy value that is not a
\* list); groups / sections hold the list.
Schema(groups, sections) ==
    [groups |-> groups, sections |-> sections, absent |-> FALSE, empty |-> FALSE,
     groups_kind |-> "list", sections_kind |-> "list"]

\* A schema whose groups / sections keys are of the given kinds.
ShapedSchema(groups_kind, groups, sections_kind, sections) ==
    [groups |-> IF groups_kind = "list" THEN groups ELSE <<>>,
     sections |-> IF sections_kind = "list" THEN sections ELSE <<>>,
     absent |-> FALSE, empty |-> FALSE,
     groups_kind |-> groups_kind, sections_kind |-> sections_kind]

\* req.cv_schema is None / an empty dict (falsy, so it counts as no schema).
NoSchema == [groups |-> <<>>, sections |-> <<>>, absent |-> TRUE, empty |-> TRUE,
             groups_kind |-> "missing", sections_kind |-> "missing"]
EmptyDict == [groups |-> <<>>, sections |-> <<>>, absent |-> FALSE, empty |-> TRUE,
              groups_kind |-> "missing", sections_kind |-> "missing"]

\* _validate_schema_shape(schema) returns without raising.
_validate_schema_shape(sch) ==
    /\ ~sch.absent
    /\ sch.sections_kind = "list" /\ sch.sections # <<>>
    /\ sch.groups_kind \in {"list", "missing"}

----------------------------------------------------------------------------
(* utils_sections.py: candidates, heading heuristic, line handling.        *)

\* _normalize_candidates(v) for None, str and list-of-str values.
_normalize_candidates(val) ==
    IF val.kind = "str"
    THEN (IF Strip(val.v) = <<>> THEN <<>> ELSE <<Strip(val.v)>>)
    ELSE IF val.kind = "list"
    THEN SelectSeq([i \in DOMAIN val.v |-> Strip(val.v[i])], LAMBDA s : s # <<>>)
    ELSE <<>>

_get_anchor_candidates(sec, which) ==
    IF which \notin {"start", "end"} THEN <<>>
    ELSE IF sec.anchors.kind = "dict"
    THEN _normalize_candidates(IF which = "start" THEN sec.anchors.start
                                                  ELSE sec.anchors.end)
    ELSE LET flat == IF which = "start" THEN sec.start ELSE sec.end
         IN  IF flat.kind # "none" THEN _normalize_candidates(flat)
             ELSE IF sec.anchor.kind # "none" THEN _normalize_candidates(sec.anchor)
             ELSE <<>>

\* str.splitlines() for the line breaks of the model: \n, \r and \r\n.
SplitLines(text) ==
    LET n == Len(text)
        IsBreak(i) == /\ text[i] \in {"\n", "\r"}
                      /\ ~(text[i] = "\n" /\ i > 1 /\ text[i - 1] = "\r")
        breaks == SelectSeq([i \in 1 .. n |-> i], IsBreak)
        BreakEnd(i) == IF text[i] = "\r" /\ i < n /\ text[i + 1] = "\n"
                       THEN i + 1 ELSE i
        LineStart(j) == IF j = 1 THEN 1 ELSE BreakEnd(breaks[j - 1]) + 1
        ended == [j \in DOMAIN breaks |-> SubSeq(text, LineStart(j), breaks[j] - 1)]
        last == SubSeq(text, LineStart(Len(breaks) + 1), n)
    IN  IF last = <<>> THEN ended ELSE Append(ended, last)

\* "\n".join(lines)
RECURSIVE JoinLines(_)
JoinLines(lines) ==
    IF lines = <<>> THEN <<>>
    ELSE IF Len(lines) = 1 THEN lines[1]
    ELSE lines[1] \o <<"\n">> \o JoinLines(Tail(lines))


CommonHeadings ==
    { <<"s","u","m","m","a","r","y">>, <<"s","k","i","l","l","s">>,
      <<"e","x","p","e","r","i","e","n","c","e">>,
      <<"e","d","u","c","a","t","i","o","n">>,
      <<"c","e","r","t","i","f","i","c","a","t","i","o","n","s">>,
      <<"p","u","b","l","i","c","a","t","i","o","n","s">>,
      <<"p","a","t","e","n","t","s">>, <<"p","r","o","j","e","c","t","s">> }

HeadingShortLen == 2
HeadingMaxLen == 60
HeadingUpperPct == 85

_looks_like_heading(line) ==
    LET s == Strip(line)
        letters == SelectSeq(s, IsAlpha)
        uppers == SelectSeq(letters, IsUpperCh)
    IN  /\ s # <<>>
        /\ \/ Len(s) <= HeadingShortLen
           \/ /\ letters # <<>>
              /\ 100 * Len(uppers) >= HeadingUpperPct * Len(letters)
              /\ Len(s) <= HeadingMaxLen
           \/ /\ \E k \in CommonHeadings : Contains(LowerStr(s), k)
              /\ Len(s) <= HeadingMaxLen

\* A slice that keeps its restated heading line.
KeepHeaderLine(text) == text

\* The header strip of split_resume_by_schema applied to the stripped slice.
StripHeaderLine(text) ==
    IF text = <<>> THEN text
    ELSE LET lines == SplitLines(text)
             first_line == Strip(lines[1])
         IN  IF first_line # <<>> /\ _looks_like_heading(first_line)
             THEN LET blank == {j \in 2 .. Len(lines) : Strip(lines[j]) # <<>>}
                      j == IF blank = {} THEN Len(lines) + 1 ELSE Min(blank)
                  IN  Strip(JoinLines(SubSeq(lines, j, Len(lines))))
             ELSE text


----------------------------------------------------------------------------
(* utils_sections.py: split_resume_by_schema.                              *)

\* The position of a group that has neither anchor nor child: 10**18 in the
\* code, here the largest power of ten a 32-bit integer holds; both exceed
\* every offset of every text.
Unresolved == 1000000000

GroupId(g) == Strip(g.id)
SectionId(sec) == Strip(sec.id)
ParentOf(sec) ==
    IF sec.parentId = NoneT \/ sec.parentId = <<>> THEN NoneT ELSE Strip(sec.parentId)

\* Step 1: group_anchor, a dict keyed by group id; a later entry with the
\* same id overwrites an earlier one.
LocateGroups(text, groups, norm_pack) ==
    LET ids == {GroupId(groups[i]) : i \in DOMAIN groups} \ {<<>>}
    IN  [gid \in ids |->
            LET last == Max({i \in DOMAIN groups : GroupId(groups[i]) = gid})
                title == IF groups[last].title = NoneT THEN <<>>
                         ELSE Strip(groups[last].title)
            IN  IF title # <<>>
                THEN _find_heading_idx_fuzzy(text, title, 0, norm_pack) ELSE -1]

\* group_anchor.get(gid, -1)
AnchorOf(group_anchor, gid) ==
    IF gid \in DOMAIN group_anchor THEN group_anchor[gid] ELSE -1

\* The earliest match over all candidates, whatever their order in the list.
EarliestFound(text, cands, from, norm_pack) ==
    LET hits == {_find_heading_idx_fuzzy(text, cands[i], from, norm_pack) :
                    i \in DOMAIN cands} \ {-1}
    IN  IF hits = {} THEN -1 ELSE Min(hits)

\* The candidate loops of the span builder: the result of the first
\* candidate, in list order, that the resolver finds from `from`, or -1.
RECURSIVE FirstFound(_, _, _, _)
FirstFound(text, cands, from, norm_pack) ==
    IF cands = <<>> THEN -1
    ELSE LET idx == _find_heading_idx_fuzzy(text, Head(cands), from, norm_pack)
         IN  IF idx >= 0 THEN idx ELSE FirstFound(text, Tail(cands), from, norm_pack)

\* while 0 <= s_idx < len(raw) and raw[s_idx] in "\r\n\t ": s_idx += 1
RECURSIVE SkipWs(_, _)
SkipWs(text, i) ==
    IF 0 <= i /\ i < Len(text) /\ text[i + 1] \in {"\r", "\n", "\t", " "}
    THEN SkipWs(text, i + 1) ELSE i

\* "find start" without the clamp to the parent anchor: a leaf whose own
\* anchors are not found starts at offset 0.
ResolveStartUnclamped(text, sec, group_anchor, norm_pack) ==
    LET parentId == ParentOf(sec)
        cands == _get_anchor_candidates(sec, "start")
        search_from ==
            IF parentId # NoneT /\ AnchorOf(group_anchor, parentId) >= 0
            THEN group_anchor[parentId] ELSE 0
        scoped == FirstFound(text, cands, search_from, norm_pack)
        s_idx == IF scoped >= 0 THEN scoped ELSE FirstFound(text, cands, 0, norm_pack)
    IN  IF s_idx >= 0 THEN s_idx ELSE 0

\* "find start" with its two passes and the do-not-drop fallback.
ResolveStart(text, sec, group_anchor, norm_pack) ==
    LET parentId == ParentOf(sec)
        cands == _get_anchor_candidates(sec, "start")
        search_from ==
            IF parentId # NoneT /\ AnchorOf(group_anchor, parentId) >= 0
            THEN group_anchor[parentId] ELSE 0
        scoped == FirstFound(text, cands, search_from, norm_pack)
        s_idx == IF scoped >= 0 THEN scoped ELSE FirstFound(text, cands, 0, norm_pack)
    IN  IF s_idx >= 0 THEN s_idx
        ELSE IF parentId # NoneT /\ AnchorOf(group_anchor, parentId) >= 0
        THEN SkipWs(text, group_anchor[parentId])
        ELSE 0

\* "find end" without the group boundary: a leaf whose end anchors are not
\* found runs to the end of the text.
ResolveEndIgnoringGroups(text, sec, s_idx, group_anchor, norm_pack) ==
    LET by_anchor == FirstFound(text, _get_anchor_candidates(sec, "end"),
                                s_idx + 1, norm_pack)
    IN  IF by_anchor >= 0 THEN by_anchor ELSE Len(text)

\* "find end" that searches from the start itself and keeps what it finds:
\* an end anchor at the start closes the span there.
ResolveEndAsFound(text, sec, s_idx, group_anchor, norm_pack) ==
    LET cands == _get_anchor_candidates(sec, "end")
        by_anchor == FirstFound(text, cands, s_idx, norm_pack)
        later == {v \in {group_anchor[g] : g \in DOMAIN group_anchor} : v > s_idx}
        next_group_pos == IF later = {} THEN Len(text) ELSE Min(later)
    IN  IF by_anchor >= 0 THEN by_anchor
        ELSE IF next_group_pos > s_idx THEN next_group_pos ELSE Len(text)

\* "find end": end candidates after start, else the next group anchor, else
\* the end of the text; never at or before start.
ResolveEnd(text, sec, s_idx, group_anchor, norm_pack) ==
    LET cands == _get_anchor_candidates(sec, "end")
        by_anchor == FirstFound(text, cands, s_idx + 1, norm_pack)
        later == {v \in {group_anchor[g] : g \in DOMAIN group_anchor} : v > s_idx}
        next_group_pos == IF later = {} THEN Len(text) ELSE Min(later)
        e_idx == IF by_anchor >= 0 THEN by_anchor
                 ELSE IF next_group_pos > s_idx THEN next_group_pos ELSE Len(text)
    IN  IF e_idx <= s_idx THEN Len(text) ELSE e_idx

\* One iteration of the span loop for a leaf descriptor.
BuildSpan(text, sec, group_anchor, norm_pack) ==
    LET sid == SectionId(sec)
        title == IF sec.title = NoneT \/ Strip(sec.title) = <<>> THEN sid
                 ELSE Strip(sec.title)
        s_idx == ResolveStart(text, sec, group_anchor, norm_pack)
        e_idx == ResolveEnd(text, sec, s_idx, group_anchor, norm_pack)
    IN  [sec_id |-> sid, title |-> title, parentId |-> ParentOf(sec),
         start_idx |-> s_idx, end_idx |-> e_idx,
         text |-> StripHeaderLine(Strip(SubSeq(text, s_idx + 1, e_idx)))]

\* A span loop that also skips the leaves that declare no start anchor.
RECURSIVE BuildSpansOfAnchored(_, _, _, _)
BuildSpansOfAnchored(text, sections, group_anchor, norm_pack) ==
    IF sections = <<>> THEN <<>>
    ELSE LET sec == Head(sections)
             rest == BuildSpansOfAnchored(text, Tail(sections), group_anchor, norm_pack)
         IN  IF \/ SectionId(sec) = <<>> \/ sec.isGroup
                \/ _get_anchor_candidates(sec, "start") = <<>>
             THEN rest
             ELSE <<BuildSpan(text, sec, group_anchor, norm_pack)>> \o rest

\* Step 2: the span loop; entries without id and group entries are skipped.
RECURSIVE BuildSpans(_, _, _, _)
BuildSpans(text, sections, group_anchor, norm_pack) ==
    IF sections = <<>> THEN <<>>
    ELSE LET sec == Head(sections)
             rest == BuildSpans(text, Tail(sections), group_anchor, norm_pack)
         IN  IF SectionId(sec) = <<>> \/ sec.isGroup THEN rest
             ELSE <<BuildSpan(text, sec, group_anchor, norm_pack)>> \o rest

\* Group nodes placed by their own anchor alone: a group whose title is not
\* found is unresolved whatever its children.
GroupNodesByOwnAnchor(groups, group_anchor, spans) ==
    LET kept == SelectSeq(groups, LAMBDA g : GroupId(g) # <<>>)
    IN  [i \in DOMAIN kept |->
            [pos |-> IF AnchorOf(group_anchor, GroupId(kept[i])) >= 0
                     THEN group_anchor[GroupId(kept[i])] ELSE Unresolved,
             node |-> [id |-> GroupId(kept[i]),
                       title |-> IF kept[i].title = NoneT THEN GroupId(kept[i])
                                 ELSE Strip(kept[i].title),
                       text |-> <<>>, parentId |-> NoneT, isGroup |-> TRUE]]]

\* Group nodes that carry the text of their first child span.
GroupNodesWithChildText(groups, group_anchor, spans) ==
    LET kept == SelectSeq(groups, LAMBDA g : GroupId(g) # <<>>)
        children(gid) == SelectSeq(spans, LAMBDA sp : sp.parentId = gid)
        Pos(gid) ==
            LET child == {children(gid)[i].start_idx : i \in DOMAIN children(gid)}
                ps == ({AnchorOf(group_anchor, gid)} \cup child) \ {-1}
            IN  IF ps = {} THEN Unresolved ELSE Min(ps)
    IN  [i \in DOMAIN kept |->
            [pos |-> Pos(GroupId(kept[i])),
             node |-> [id |-> GroupId(kept[i]),
                       title |-> IF kept[i].title = NoneT THEN GroupId(kept[i])
                                 ELSE Strip(kept[i].title),
                       text |-> IF children(GroupId(kept[i])) = <<>> THEN <<>>
                                ELSE children(GroupId(kept[i]))[1].text,
                       parentId |-> NoneT, isGroup |-> TRUE]]]

\* Step 3: one (pos, node) per group entry with an id.
GroupNodes(groups, group_anchor, spans) ==
    LET kept == SelectSeq(groups, LAMBDA g : GroupId(g) # <<>>)
        Pos(gid) ==
            LET child == {spans[i].start_idx : i \in
                            {k \in DOMAIN spans : spans[k].parentId = gid}}
                ps == ({AnchorOf(group_anchor, gid)} \cup child) \ {-1}
            IN  IF ps = {} THEN Unresolved ELSE Min(ps)
    IN  [i \in DOMAIN kept |->
            [pos |-> Pos(GroupId(kept[i])),
             node |-> [id |-> GroupId(kept[i]),
                       title |-> IF kept[i].title = NoneT THEN GroupId(kept[i])
                                 ELSE Strip(kept[i].title),
                       text |-> <<>>, parentId |-> NoneT, isGroup |-> TRUE]]]

LeafNodes(spans) ==
    [i \in DOMAIN spans |->
        [pos |-> spans[i].start_idx + 1,
         node |-> [id |-> spans[i].sec_id, title |-> spans[i].title,
                   text |-> spans[i].text, parentId |-> spans[i].parentId,
                   isGroup |-> FALSE]]]

\* The sort key (pos, 0 if group else 1), compared as Python compares tuples.
KeyLE(a, b) ==
    \/ a.pos < b.pos
    \/ a.pos = b.pos /\ (a.node.isGroup \/ ~b.node.isGroup)

\* list.sort is stable: x goes after every entry whose key is <= its own.
RECURSIVE InsertSorted(_, _)
InsertSorted(sorted, x) ==
    IF sorted = <<>> THEN <<x>>
    ELSE IF KeyLE(Head(sorted), x) THEN <<Head(sorted)>> \o InsertSorted(Tail(sorted), x)
    ELSE <<x>> \o sorted

RECURSIVE SortNodes(_)
SortNodes(nodes) ==
    IF nodes = <<>> THEN <<>>
    ELSE InsertSorted(SortNodes(SubSeq(nodes, 1, Len(nodes) - 1)), nodes[Len(nodes)])

NodeKey(node) == <<node.id, node.isGroup>>

\* A de-duplication by id alone.
DedupById(sorted) ==
    LET keep == {i \in DOMAIN sorted :
                    \A j \in 1 .. i - 1 : sorted[j].node.id # sorted[i].node.id}
        F[i \in 0 .. Len(sorted)] ==
            IF i = 0 THEN <<>>
            ELSE IF i \in keep THEN Append(F[i - 1], sorted[i].node) ELSE F[i - 1]
    IN  F[Len(sorted)]

\* A de-duplication that keeps the last node of each key.
DedupKeepLast(sorted) ==
    LET keep == {i \in DOMAIN sorted :
                    \A j \in i + 1 .. Len(sorted) :
                        NodeKey(sorted[j].node) # NodeKey(sorted[i].node)}
        F[i \in 0 .. Len(sorted)] ==
            IF i = 0 THEN <<>>
            ELSE IF i \in keep THEN Append(F[i - 1], sorted[i].node) ELSE F[i - 1]
    IN  F[Len(sorted)]

\* Step 5: keep the first node of each (id, isGroup) key.
RECURSIVE DedupFrom(_, _, _)
DedupFrom(sorted, seen, out) ==
    IF sorted = <<>> THEN out
    ELSE LET node == Head(sorted).node
         IN  IF NodeKey(node) \in seen THEN DedupFrom(Tail(sorted), seen, out)
             ELSE DedupFrom(Tail(sorted), seen \cup {NodeKey(node)}, Append(out, node))

Dedup(sorted) == DedupFrom(sorted, {}, <<>>)

\* The locals of split_resume_by_schema at its return.
EmptySplit ==
    [group_anchor |-> <<>>, spans |-> <<>>, all_nodes |-> <<>>, out |-> <<>>,
     crashed |-> FALSE]

\* g.get / sec.get raises AttributeError on an entry that is not an object;
\* both loops visit every entry.
SplitterRaises(sch) ==
    \/ \E i \in DOMAIN sch.groups : ~sch.groups[i].is_dict
    \/ \E i \in DOMAIN sch.sections : ~sch.sections[i].is_dict

split_resume_by_schema(text, sch) ==
    IF Strip(text) = <<>> THEN EmptySplit
    ELSE IF sch.groups_kind = "other" \/ sch.sections_kind = "other" THEN EmptySplit
    ELSE IF SplitterRaises(sch) THEN [EmptySplit EXCEPT !.crashed = TRUE]
    ELSE LET norm_pack == _build_norm_map(text)
             group_anchor == LocateGroups(text, sch.groups, norm_pack)
             spans == BuildSpans(text, sch.sections, group_anchor, norm_pack)
             all_nodes == SortNodes(GroupNodes(sch.groups, group_anchor, spans)
                                    \o LeafNodes(spans))
         IN  [group_anchor |-> group_anchor, spans |-> spans,
              all_nodes |-> all_nodes, out |-> Dedup(all_nodes),
              crashed |-> FALSE]


----------------------------------------------------------------------------
(* app.py: the anchor-applicability check.                                 *)

AnchorFields(sec) == <<sec.start, sec.end, sec.anchor, sec.pattern, sec.match>>

\* The inner loop of _extract_schema_anchors: the str-valued fields only.
SectionAnchors(sec) ==
    LET fields == AnchorFields(sec)
        strs == SelectSeq(fields, LAMBDA f : f.kind = "str" /\ Strip(f.v) # <<>>)
    IN  [i \in DOMAIN strs |-> Strip(strs[i].v)]

RECURSIVE _extract_schema_anchors_from(_)
_extract_schema_anchors_from(sections) ==
    IF sections = <<>> THEN <<>>
    ELSE (IF Head(sections).is_dict THEN SectionAnchors(Head(sections)) ELSE <<>>)
         \o _extract_schema_anchors_from(Tail(sections))

_extract_schema_anchors(schema_obj) ==
    IF schema_obj.sections_kind # "list" THEN <<>>
    ELSE _extract_schema_anchors_from(schema_obj.sections)

AnchorRatioPct == 10

\* A rule that falls back only when none of two or more anchors is found.
FallbackWhenNoneOfSeveral(total, matched) ==
    IF total >= 2 /\ matched = 0 THEN "anchors_none_found" ELSE "none"

\* should_fallback and its reason, from total and matched (total > 0).
FallbackDecision(total, matched) ==
    IF total >= 2 /\ matched = 0 THEN "anchors_none_found"
    ELSE IF 100 * matched < AnchorRatioPct * total THEN "anchor_ratio_low"
    ELSE "none"

_check_schema_anchor_match(schema_obj, raw_text) ==
    LET anchors == _extract_schema_anchors(schema_obj)
    IN  IF anchors = <<>>
        THEN [total |-> 0, matched |-> 0, match_ratio |-> <<0, 1>>,
              should_fallback |-> FALSE, reason |-> "none"]
        ELSE LET raw_upper == UpperStr(raw_text)
                 hit == {i \in DOMAIN anchors :
                            LET a == UpperStr(Strip(anchors[i]))
                            IN  a # <<>> /\ Contains(raw_upper, a)}
                 matched == Cardinality(hit)
                 total == Len(anchors)
                 reason == FallbackDecision(total, matched)
             IN  [total |-> total, matched |-> matched,
                  match_ratio |-> <<matched, total>>,
                  should_fallback |-> reason # "none", reason |-> reason]

NoAnchorMatch ==
    [total |-> 0, matched |-> 0, match_ratio |-> <<0, 1>>,
     should_fallback |-> FALSE, reason |-> "not_run"]

----------------------------------------------------------------------------
(* app.py: parse, its Section normalisation and its quality gate.          *)

T_unknown == <<"u","n","k","n","o","w","n">>
T_UNKNOWN == <<"U","N","K","N","O","W","N">>

\* str(n) for a positive integer.
RECURSIVE DecimalStr(_)
DecimalStr(n) ==
    LET d == <<"0","1","2","3","4","5","6","7","8","9">>[(n % 10) + 1]
    IN  IF n < 10 THEN <<d>> ELSE Append(DecimalStr(n \div 10), d)

UnknownSection(raw_text) ==
    [id |-> T_unknown, title |-> T_UNKNOWN, text |-> raw_text, constraints |-> <<>>,
     parentId |-> NoneT, isGroup |-> FALSE]

\* "Normalize to Section model": the i-th dict of sections_raw.
NormalizeSection(s, i) ==
    [id |-> IF s.id = <<>> THEN <<"s">> \o DecimalStr(i) ELSE s.id,
     title |-> IF s.title = <<>>
               THEN <<"S","e","c","t","i","o","n"," ">> \o DecimalStr(i) ELSE s.title,
     text |-> s.text, constraints |-> <<>>,
     parentId |-> s.parentId, isGroup |-> s.isGroup]

NormalizeSections(sections_raw) ==
    [i \in DOMAIN sections_raw |-> NormalizeSection(sections_raw[i], i)]

LeafRatioPct == 30
MinLeafChars == 200

\* A leaf-content rule that needs both signals to be low before it falls back.
LeafContentBothLow(l, non_empty_leaves, total_leaf_text_len) ==
    IF 100 * non_empty_leaves < LeafRatioPct * l /\ total_leaf_text_len < MinLeafChars
    THEN "leaf_ratio_low" ELSE "none"

\* Rule b) of the validation: the fallback reason, or "none" for mode schema.
LeafContentDecision(l, non_empty_leaves, total_leaf_text_len) ==
    IF 100 * non_empty_leaves < LeafRatioPct * l THEN "leaf_ratio_low"
    ELSE IF total_leaf_text_len < MinLeafChars THEN "leaf_chars_low"
    ELSE "none"

RECURSIVE SumLen(_)
SumLen(texts) == IF texts = <<>> THEN 0 ELSE Len(Head(texts)) + SumLen(Tail(texts))

\* The "VALIDATION" block of parse for a supplied schema: the fallback
\* reason for the normalised sections, or "none".
QualityGate(sections) ==
    LET leaves == SelectSeq(sections, LAMBDA s : ~s.isGroup)
        g == Len(sections) - Len(leaves)
        l == Len(leaves)
        stripped == [i \in DOMAIN leaves |-> Strip(leaves[i].text)]
        non_empty_leaves == Len(SelectSeq(stripped, LAMBDA x : x # <<>>))
    IN  IF g > 0 /\ l = 0 THEN "only_groups"
        ELSE IF l > 0 THEN LeafContentDecision(l, non_empty_leaves, SumLen(stripped))
        ELSE "no_sections"

\* The summary line of the diagnostics: which of the sentences it is and the
\* fallback reason the sentence quotes.
Summary(mode, reason) ==
    IF mode = "schema" THEN [kind |-> "parsed_using_schema", reason |-> "none"]
    ELSE IF mode = "fallback_unknown"
    THEN IF reason # "none" THEN [kind |-> "schema_fallback", reason |-> reason]
         ELSE [kind |-> "no_schema_provided", reason |-> "none"]
    ELSE [kind |-> "parsed", reason |-> "none"]

\* Diagnostics that count the sections but never report a fallback reason.
DiagnosticsWithoutReason(sections, mode, reason, stats) ==
    [parsing_mode |-> mode,
     total_sections |-> Len(sections),
     leaf_sections |-> Len(SelectSeq(sections, LAMBDA s : ~s.isGroup)),
     group_sections |-> Len(SelectSeq(sections, LAMBDA s : s.isGroup)),
     schema_issues |-> "none",
     summary |-> Summary(mode, "none"),
     schema_anchor_total |-> stats.total,
     schema_anchor_matched |-> stats.matched]

\* _build_parse_diagnostics: the stats, the schema issue and the summary it
\* reports.  A fallback reason is reported in mode fallback_unknown only.
Diagnostics(sections, mode, reason, stats) ==
    [parsing_mode |-> mode,
     total_sections |-> Len(sections),
     leaf_sections |-> Len(SelectSeq(sections, LAMBDA s : ~s.isGroup)),
     group_sections |-> Len(SelectSeq(sections, LAMBDA s : s.isGroup)),
     schema_issues |-> IF mode = "fallback_unknown" THEN reason ELSE "none",
     summary |-> Summary(mode, reason),
     schema_anchor_total |-> stats.total,
     schema_anchor_matched |-> stats.matched]

\* The diagnostics of the failed parses, built in place by parse.
ErrorDiagnostics(issue) ==
    [parsing_mode |-> "error", total_sections |-> 0, leaf_sections |-> 0,
     group_sections |-> 0, schema_issues |-> issue,
     summary |-> [kind |-> "failed", reason |-> issue],
     schema_anchor_total |-> 0, schema_anchor_matched |-> 0]

ParseResp(ok, error, raw_text, sections, diagnostics) ==
    [ok |-> ok, error |-> error, raw_text |-> raw_text, sections |-> sections,
     diagnostics |-> diagnostics]

NoResp == ParseResp(FALSE, "pending", <<>>, <<>>, ErrorDiagnostics("pending"))


----------------------------------------------------------------------------
(* Inputs.  Every text over the alphabet up to a bound; schemas built from *)
(* a few shapes.                                                           *)

Texts(alphabet, n) == UNION {[1 .. k -> alphabet] : k \in 0 .. n}

T_A == <<"A">>
T_B == <<"B">>
T_G == <<"G">>
T_g1 == <<"g", "1">>
T_g2 == <<"g", "2">>
T_s1 == <<"s", "1">>
T_s2 == <<"s", "2">>

Idle ==
    /\ needle = <<>> /\ start_from = 0 /\ occ = 0 /\ gaps = <<>>
    /\ found_clean = -2 /\ found = -2

\* No optimize_section call and no export request is under way.
NoOpt == [state |-> "none"]

NoGeneration == opt = NoOpt /\ out_dir = {} /\ exports = <<>>

NoReq == [file_text |-> <<>>, cv_schema |-> NoSchema, schema_path |-> NoneT,
          schema_file |-> NoSchema]

----------------------------------------------------------------------------
(* The anchor resolver on a text into which whitespace is being inserted.  *)

MaxResolverText == 4
MaxInserted == 2

ResolverAlphabet == {"A", "B", "b", " ", "\n", Ligature}
ResolverNeedles == {<<"A", "B">>, <<"B", "B">>, <<"a", " ", "b">>}

\* needle occurs in text at raw offset p, letter case aside.
OccursAt(text, cand, p) ==
    /\ p + Len(cand) <= Len(text)
    /\ UpperStr(SubSeq(text, p + 1, p + Len(cand))) = UpperStr(cand)

RECURSIVE TotalLen(_)
TotalLen(ss) == IF ss = <<>> THEN 0 ELSE Len(Head(ss)) + TotalLen(Tail(ss))

InitResolver ==
    /\ pc = "clean"
    /\ raw \in Texts(ResolverAlphabet, MaxResolverText)
    /\ needle \in ResolverNeedles
    /\ occ \in 0 .. MaxResolverText
    /\ OccursAt(raw, needle, occ)
    /\ start_from \in 0 .. occ
    /\ gaps = [k \in 1 .. Len(needle) - 1 |-> <<>>]
    /\ found_clean = -2 /\ found = -2
    /\ schema = NoSchema /\ split = EmptySplit /\ split_calls = 0
    /\ req = NoReq /\ anchor_match = NoAnchorMatch /\ resp = NoResp
    /\ NoGeneration

\* One call of the resolver on the current text.
Resolve ==
    /\ pc \in {"clean", "noisy"}
    /\ found' = _find_heading_idx_fuzzy(raw, needle, start_from, _build_norm_map(raw))
    /\ found_clean' = IF pc = "clean" THEN found' ELSE found_clean
    /\ pc' = IF pc = "clean" THEN "clean_resolved" ELSE "noisy_resolved"
    /\ UNCHANGED <<opt, out_dir, exports, raw, schema, needle, start_from, occ, gaps, split, split_calls, req,
                   anchor_match, resp>>

\* The extraction breaks the occurrence: one more whitespace character
\* lands after its k-th character.
InsertWhitespace(k, w) ==
    /\ pc \in {"clean_resolved", "noisy", "noisy_resolved"}
    /\ TotalLen(gaps) < MaxInserted
    /\ LET at == occ + k + TotalLen(SubSeq(gaps, 1, k))
       IN  raw' = SubSeq(raw, 1, at) \o <<w>> \o SubSeq(raw, at + 1, Len(raw))
    /\ gaps' = [gaps EXCEPT ![k] = Append(@, w)]
    /\ pc' = "noisy"
    /\ UNCHANGED <<opt, out_dir, exports, schema, needle, start_from, occ, found_clean, found, split, split_calls, req,
                   anchor_match, resp>>

NextResolver ==
    \/ Resolve
    \/ \E k \in 1 .. Len(needle) - 1 : \E w \in {" ", "\n"} : InsertWhitespace(k, w)

SpecResolver == InitResolver /\ [][NextResolver]_vars

----------------------------------------------------------------------------
(* split_resume_by_schema called on a text and a schema.                   *)

MaxSplitText == 4

SplitAlphabet == {"A", "B", "G", " ", "\n", Ligature}

SplitGroups ==
    { <<>>,
      <<Group(T_g1, T_G)>>,
      <<Group(T_g1, T_G), Group(T_g1, T_A)>>,
      <<Group(T_g1, T_G), Group(T_s1, T_B)>>,
      <<Group(T_g2, T_A), Group(T_g1, T_G)>> }

SplitSections ==
    { <<AnchoredSection(T_s1, T_g1, FALSE, <<T_B, T_A>>, <<>>)>>,
      <<AnchoredSection(T_s1, NoneT, FALSE, <<T_B, T_A>>, <<T_G>>)>>,
      <<AnchoredSection(T_s1, T_g1, FALSE, <<T_A>>, <<T_B>>)>>,
      <<AnchoredSection(T_s1, NoneT, FALSE, <<T_A>>, <<>>),
        AnchoredSection(T_s1, T_g1, FALSE, <<T_B>>, <<>>)>>,
      <<AnchoredSection(T_s1, T_g1, FALSE, <<T_A>>, <<>>),
        AnchoredSection(T_s1, NoneT, TRUE, <<T_B>>, <<>>)>>,
      <<AnchoredSection(T_s1, T_g1, FALSE, <<T_A>>, <<>>),
        AnchoredSection(T_s2, T_g2, FALSE, <<T_B>>, <<T_A>>)>>,
      <<AnchoredSection(<<>>, NoneT, FALSE, <<T_A>>, <<>>),
        Section(T_s1, NoneT, T_g2, FALSE, NoAnchors, NoVal, NoVal, NoVal)>> }

InitSplit ==
    /\ pc = "split_call"
    /\ raw \in Texts(SplitAlphabet, MaxSplitText)
    /\ \E gs \in SplitGroups : \E ss \in SplitSections : schema = Schema(gs, ss)
    /\ split = EmptySplit /\ split_calls = 0
    /\ Idle
    /\ req = NoReq /\ anchor_match = NoAnchorMatch /\ resp = NoResp
    /\ NoGeneration

\* split_resume_by_schema(raw, schema), from call to return.
SplitCall ==
    /\ pc = "split_call"
    /\ split' = split_resume_by_schema(raw, schema)
    /\ split_calls' = split_calls + 1
    /\ pc' = "split_returned"
    /\ UNCHANGED <<opt, out_dir, exports, raw, schema, needle, start_from, occ, gaps, found_clean, found,
                   req, anchor_match, resp>>

NextSplit == SplitCall

SpecSplit == InitSplit /\ [][NextSplit]_vars


----------------------------------------------------------------------------
(* The parse handler of app.py, one request at a time.                     *)

MaxLeaves == 5
MaxParseText == 2

Rep(c, n) == [i \in 1 .. n |-> c]

T_p == <<"p">>
T_l1 == <<"l", "1">>
T_EXPERIENCE == <<"E","X","P","E","R","I","E","N","C","E">>
T_EDUCATION == <<"E","D","U","C","A","T","I","O","N">>

\* The i-th heading of a generated document: AAA, BBB, ...
HeadingOf(i) == Rep(UpperAlpha[i], 3)
LeafIdOf(i) == <<"l">> \o DecimalStr(i)

\* The body under the i-th heading of a document with k leaves, the last e
\* of them empty, and total characters of leaf text.
BodyOf(i, k, e, total) ==
    IF i > k - e THEN <<>>
    ELSE IF i = 1 THEN Rep("x", total - (k - e - 1)) \o <<"\n">>
    ELSE <<"y", "\n">>

RECURSIVE LeafDocFrom(_, _, _, _)
LeafDocFrom(i, k, e, total) ==
    IF i > k THEN <<>>
    ELSE HeadingOf(i) \o <<"\n">> \o BodyOf(i, k, e, total)
         \o LeafDocFrom(i + 1, k, e, total)

LeafDoc(k, e, total) == LeafDocFrom(1, k, e, total)

BodyTotals == {150, 199, 200, 250}

\* The schema of a generated document, in the two anchor styles the
\* splitter reads: anchors.start/end lists, or flat start/end strings.
LeafSchema(k, style, grouped) ==
    LET parent == IF grouped THEN T_g1 ELSE NoneT
        next(i) == IF i < k THEN <<HeadingOf(i + 1)>> ELSE <<>>
        leaf(i) ==
            IF style = "lists"
            THEN AnchoredSection(LeafIdOf(i), parent, FALSE, <<HeadingOf(i)>>, next(i))
            ELSE Section(LeafIdOf(i), NoneT, parent, FALSE, NoAnchors,
                         StrVal(HeadingOf(i)),
                         IF i < k THEN StrVal(HeadingOf(i + 1)) ELSE NoVal, NoVal)
    IN  Schema(IF grouped THEN <<Group(T_g1, HeadingOf(1))>> ELSE <<>>,
               [i \in 1 .. k |-> leaf(i)])

\* A 500-character document and schemas that declare the three anchors
\* XXX, YYY, ZZZ, none of which occurs in it.
LongDoc == Rep("x", 500)
T_XXX == <<"X","X","X">>
T_YYY == <<"Y","Y","Y">>
T_ZZZ == <<"Z","Z","Z">>

ThreeAnchorSchemas ==
    { Schema(<<>>, <<Section(T_s1, NoneT, NoneT, FALSE, NoAnchors,
                             StrVal(T_XXX), StrVal(T_YYY), StrVal(T_ZZZ))>>),
      Schema(<<>>, <<Section(T_s1, NoneT, NoneT, FALSE, NoAnchors,
                             StrVal(T_XXX), StrVal(T_YYY), NoVal),
                     Section(T_s2, NoneT, NoneT, FALSE, NoAnchors,
                             StrVal(T_ZZZ), NoVal, NoVal)>>),
      Schema(<<>>, <<AnchoredSection(T_s1, NoneT, FALSE, <<T_XXX>>, <<T_YYY, T_ZZZ>>)>>),
      Schema(<<>>, <<AnchoredSection(T_s1, NoneT, FALSE, <<T_XXX>>, <<T_YYY>>),
                     AnchoredSection(T_s2, NoneT, FALSE, <<T_ZZZ>>, <<>>)>>),
      Schema(<<>>, <<Section(T_s1, NoneT, NoneT, FALSE, NoAnchors,
                             ListVal(<<T_XXX>>), ListVal(<<T_YYY, T_ZZZ>>), NoVal)>>) }

\* The reference scenario of the spec.
ScenarioText ==
    <<"H","E","A","D","E","R","\n","J","o","h","n"," ","D","o","e","\n","\n","E","X","P","E","R","I","E","N","C","E","\n","D","i","d"," ","t","h","i","n","g","s",".","\n","\n","E","D","U","C","A","T","I","O","N","\n","B","S","c",".">>

ScenarioSchema ==
    Schema(<<Group(T_g1, T_EXPERIENCE)>>,
           <<AnchoredSection(T_l1, T_g1, FALSE, <<T_EXPERIENCE>>, <<T_EDUCATION>>)>>)

Request(file_text, cv_schema, schema_path, schema_file) ==
    [file_text |-> file_text, cv_schema |-> cv_schema,
     schema_path |-> schema_path, schema_file |-> schema_file]

\* Requests without a schema: no inline object or an empty one, and no
\* schema_path or an empty one.
NoSchemaRequests ==
    { Request(t, s, p, NoSchema) :
        t \in Texts({"A", "b", " ", "\n"}, MaxParseText)
              \cup {ScenarioText, LongDoc, LeafDoc(2, 1, 200)},
        s \in {NoSchema, EmptyDict}, p \in {NoneT, <<>>} }

\* Requests with an inline schema for a generated document.
LeafRequests ==
    UNION { { Request(LeafDoc(k, e, total), LeafSchema(k, style, grouped),
                      NoneT, NoSchema) :
                e \in 0 .. k, total \in BodyTotals,
                style \in {"lists", "flat"}, grouped \in BOOLEAN } :
            k \in 1 .. MaxLeaves }

OtherRequests ==
    { Request(LongDoc, s, NoneT, NoSchema) : s \in ThreeAnchorSchemas }
    \cup { Request(ScenarioText, ScenarioSchema, NoneT, NoSchema),
           Request(ScenarioText, NoSchema, T_p, ScenarioSchema),
           Request(ScenarioText, EmptyDict, T_p, NoSchema),
           Request(ScenarioText, Schema(<<>>, <<>>), NoneT, NoSchema),
           Request(ScenarioText, Schema(<<Group(T_g1, T_EXPERIENCE)>>, <<>>),
                   NoneT, NoSchema) }

\* A schema that declares total flat anchors, five to a section (start,
\* end, anchor, pattern, match), of which the first matched occur in
\* LongDoc and the others do not.
MaxAnchors == 11

AnchorNo(i, matched) == IF i <= matched THEN StrVal(<<"x", "x">>) ELSE StrVal(T_ZZZ)

CountedSection(j, total, matched) ==
    LET f(k) == IF 5 * (j - 1) + k <= total
                THEN AnchorNo(5 * (j - 1) + k, matched) ELSE NoVal
    IN  [Section(<<"s">> \o DecimalStr(j), NoneT, NoneT, FALSE, NoAnchors,
                 f(1), f(2), f(3))
            EXCEPT !.pattern = f(4), !.match = f(5)]

CountedSchema(total, matched) ==
    Schema(<<>>, [j \in 1 .. ((total + 4) \div 5) |-> CountedSection(j, total, matched)])

CountedRequests ==
    UNION { { Request(LongDoc, CountedSchema(total, matched), NoneT, NoSchema) :
                matched \in {0, 1, 2, total} \cap (0 .. total) } :
            total \in 1 .. MaxAnchors }

\* A document whose EXPERIENCE heading is broken by a newline, the same
\* document with the heading intact, and a schema that names the heading
\* in a flat start field.
T_Body == <<"\n","D","i","d"," ","t","h","i","n","g","s",".","\n","\n">>
              \o T_EDUCATION \o <<"\n","B","S","c",".">>
BrokenHeadingText == <<"E","X","P","E","R","I","\n","E","N","C","E">> \o T_Body
IntactHeadingText == T_EXPERIENCE \o T_Body

FlatHeadingSchema ==
    Schema(<<>>, <<Section(T_l1, NoneT, NoneT, FALSE, NoAnchors,
                           StrVal(T_EXPERIENCE), NoVal, NoVal)>>)

\* The same heading declared in an anchors.start list.
ListHeadingSchema ==
    Schema(<<>>, <<AnchoredSection(T_l1, NoneT, FALSE, <<T_EXPERIENCE>>, <<T_EDUCATION>>)>>)

BrokenHeadingRequests ==
    { Request(t, s, NoneT, NoSchema) :
        t \in {BrokenHeadingText, IntactHeadingText},
        s \in {FlatHeadingSchema, ListHeadingSchema} }

\* The schema of a two-leaf document under one group, with a legacy group
\* entry (isGroup true, with anchors of its own) ahead of the leaves in
\* schema.sections.
GroupEntrySchema ==
    LET s == LeafSchema(2, "lists", TRUE)
    IN  Schema(s.groups,
               <<AnchoredSection(T_g2, NoneT, TRUE, <<HeadingOf(1)>>, <<HeadingOf(2)>>)>>
               \o s.sections)

GroupEntryRequests ==
    { Request(LeafDoc(2, 0, total), GroupEntrySchema, NoneT, NoSchema) :
        total \in BodyTotals }

\* A document in which the extraction broke a year across two lines and a
\* word after its first letter.
BrokenYearText ==
    T_EXPERIENCE \o <<"\n","2","0","2","\n","2"," ","W","\n","o","r","k","e","d",".">>
        \o <<"\n","\n">> \o T_EDUCATION \o <<"\n","B","S","c",".">>

BrokenYearRequests ==
    { Request(BrokenYearText, s, NoneT, NoSchema) :
        s \in {ListHeadingSchema, FlatHeadingSchema} }

\* Requests whose schema has a groups or sections key that is not a list,
\* or an empty sections list, or an entry that is not an object.
ShapeRequests ==
    LET leaf == AnchoredSection(T_l1, NoneT, FALSE, <<T_EXPERIENCE>>, <<T_EDUCATION>>)
        grp == Group(T_g1, T_EXPERIENCE)
    IN  { Request(ScenarioText, s, NoneT, NoSchema) :
            s \in { ShapedSchema(gk, <<grp>>, sk, <<>>) :
                        gk \in {"list", "missing", "falsy", "other"},
                        sk \in {"list", "missing", "falsy", "other"} }
                  \cup { ShapedSchema(gk, <<>>, "list", <<leaf>>) :
                            gk \in {"missing", "falsy", "other"} }
                  \cup { Schema(<<grp>>, <<leaf, NonObjectSection>>),
                         Schema(<<NonObjectGroup, grp>>, <<leaf>>),
                         Schema(<<>>, <<NonObjectSection>>),
                         ShapedSchema("other", <<>>, "list", <<NonObjectSection>>) } }

\* Requests whose file holds no text or only whitespace, with a schema
\* inline, in a file, or named by a path that cannot be loaded.
BlankRequests ==
    { Request(t, s[1], s[2], s[3]) :
        t \in {<<>>, <<" ">>, <<"\n", " ">>},
        s \in { <<ScenarioSchema, NoneT, NoSchema>>,
                <<NoSchema, T_p, ScenarioSchema>>,
                <<NoSchema, T_p, NoSchema>> } }

ParseRequests ==
    NoSchemaRequests \cup LeafRequests \cup OtherRequests \cup BlankRequests
        \cup ShapeRequests \cup CountedRequests \cup BrokenHeadingRequests
        \cup GroupEntryRequests \cup BrokenYearRequests

\* _read_text: what parse_docx / parse_pdf return ends with .strip().
_read_text(file_text) == Strip(file_text)

Init ==
    /\ pc = "parse_read"
    /\ req \in ParseRequests
    /\ raw = <<>> /\ schema = NoSchema /\ split = EmptySplit /\ split_calls = 0
    /\ anchor_match = NoAnchorMatch /\ resp = NoResp
    /\ Idle /\ NoGeneration

\* A handler that takes every text for a document, the blank one included.
NeverBlank(raw_text) == FALSE

\* not raw.strip()
IsBlankText(raw_text) == Strip(raw_text) = <<>>

\* raw = _read_text(req.file_path); blank text ends the request.
ParseRead ==
    /\ pc = "parse_read"
    /\ raw' = _read_text(req.file_text)
    /\ IF IsBlankText(raw')
       THEN /\ resp' = ParseResp(FALSE, "parse failed: empty text", <<>>, <<>>,
                                 ErrorDiagnostics("none"))
            /\ pc' = "parse_done"
       ELSE /\ resp' = resp
            /\ pc' = "parse_schema"
    /\ UNCHANGED <<opt, out_dir, exports, schema, needle, start_from, occ, gaps, found_clean, found,
                   split, split_calls, req, anchor_match>>

\* An inline schema that counts for any dict, the empty one included.
HasAnyInlineDict(r) == ~r.cv_schema.absent

\* isinstance(req.cv_schema, dict) and req.cv_schema
HasInlineSchema(r) == ~r.cv_schema.absent /\ ~r.cv_schema.empty

\* _load_schema_from_path for a file that holds schema_file (absent or
\* empty: the ValueError it raises).
LoadFails(schema_file) == schema_file.absent \/ schema_file.empty

\* The choice of schema_obj; without one, sections_raw is the single
\* UNKNOWN dict; an exception of the loader reaches the outer handler.
ParseLoadSchema ==
    /\ pc = "parse_schema"
    /\ IF HasInlineSchema(req)
       THEN /\ schema' = req.cv_schema
            /\ pc' = "parse_anchor"
            /\ UNCHANGED <<split, split_calls, resp>>
       ELSE IF req.schema_path # NoneT /\ req.schema_path # <<>>
       THEN IF LoadFails(req.schema_file)
            THEN /\ resp' = ParseResp(FALSE, "schema_path error", <<>>, <<>>,
                                      ErrorDiagnostics("none"))
                 /\ pc' = "parse_done"
                 /\ UNCHANGED <<schema, split, split_calls>>
            ELSE /\ schema' = req.schema_file
                 /\ pc' = "parse_anchor"
                 /\ UNCHANGED <<split, split_calls, resp>>
       ELSE /\ schema' = NoSchema
            /\ split' = [EmptySplit EXCEPT
                            !.out = <<[id |-> T_unknown, title |-> T_UNKNOWN,
                                       text |-> raw, parentId |-> NoneT,
                                       isGroup |-> FALSE]>>]
            /\ pc' = "parse_gate"
            /\ UNCHANGED <<resp, split_calls>>
    /\ UNCHANGED <<opt, out_dir, exports, raw, needle, start_from, occ, gaps, found_clean, found, req,
                   anchor_match>>

\* The anchor validation with its early return.
ParseAnchorCheck ==
    /\ pc = "parse_anchor"
    /\ anchor_match' = _check_schema_anchor_match(schema, raw)
    /\ IF anchor_match'.should_fallback
       THEN /\ resp' = ParseResp(TRUE, "none", raw, <<UnknownSection(raw)>>,
                                 Diagnostics(<<UnknownSection(raw)>>, "fallback_unknown",
                                             anchor_match'.reason, anchor_match'))
            /\ pc' = "parse_done"
       ELSE /\ resp' = resp
            /\ pc' = "parse_split"
    /\ UNCHANGED <<opt, out_dir, exports, raw, schema, needle, start_from, occ, gaps, found_clean, found,
                   split, split_calls, req>>

\* A handler that answers a splitter exception with the UNKNOWN fallback.
SplitterCrashFallsBack(raw_text) ==
    ParseResp(TRUE, "none", raw_text, <<UnknownSection(raw_text)>>,
              Diagnostics(<<UnknownSection(raw_text)>>, "fallback_unknown",
                          "Schema splitter error", NoAnchorMatch))

\* The except clause around the splitter call: the failed parse it returns.
SplitterCrashResp(raw_text) ==
    ParseResp(FALSE, "schema splitter crashed", raw_text, <<>>,
              ErrorDiagnostics("Schema splitter error"))

\* The splitter call inside its try/except: an exception of the splitter
\* and zero sections both fail the request.
ParseSplit ==
    /\ pc = "parse_split"
    /\ split' = split_resume_by_schema(raw, schema)
    /\ split_calls' = split_calls + 1
    /\ IF split'.crashed
       THEN /\ resp' = SplitterCrashResp(raw)
            /\ pc' = "parse_done"
       ELSE IF split'.out = <<>>
       THEN /\ resp' = ParseResp(FALSE, "schema parsing produced 0 sections", raw, <<>>,
                                 ErrorDiagnostics("no sections extracted"))
            /\ pc' = "parse_done"
       ELSE /\ resp' = resp
            /\ pc' = "parse_gate"
    /\ UNCHANGED <<opt, out_dir, exports, raw, schema, needle, start_from, occ, gaps, found_clean, found,
                   req, anchor_match>>

\* Normalisation to Section, the validation block and the response.
ParseGate ==
    /\ pc = "parse_gate"
    /\ LET normalized == NormalizeSections(split.out)
           reason == IF schema.absent THEN "none" ELSE QualityGate(normalized)
           mode == IF schema.absent \/ reason # "none" THEN "fallback_unknown"
                   ELSE "schema"
           sections == IF reason # "none" THEN <<UnknownSection(raw)>> ELSE normalized
       IN  resp' = ParseResp(TRUE, "none", raw, sections,
                             Diagnostics(sections, mode, reason, anchor_match))
    /\ pc' = "parse_done"
    /\ UNCHANGED <<opt, out_dir, exports, raw, schema, needle, start_from, occ, gaps, found_clean, found,
                   split, split_calls, req, anchor_match>>

Next ==
    \/ ParseRead
    \/ ParseLoadSchema
    \/ ParseAnchorCheck
    \/ ParseSplit
    \/ ParseGate

Spec == Init /\ [][Next]_vars

----------------------------------------------------------------------------
(* Vocabulary of the claims about the resolver and the splitter.           *)

\* The raw offsets at which cand occurs in text when whitespace and letter
\* case are ignored: the occurrence starts with the character at r.
OccurrenceOffsets(text, cand) ==
    LET n == UpperStr(StripAllWs(cand))
    IN  {r \in 0 .. Len(text) - 1 :
            /\ ~IsSpace(text[r + 1])
            /\ LET rest == UpperStr(StripAllWs(SubSeq(text, r + 1, Len(text))))
               IN  Len(rest) >= Len(n) /\ SubSeq(rest, 1, Len(n)) = n}

Occurs(text, cand) ==
    StripAllWs(cand) # <<>> /\ OccurrenceOffsets(text, cand) # {}

\* The descriptors the span loop does not skip, in schema order: spans[i]
\* is the span of the i-th of them.
LeafDescriptors(sch) ==
    SelectSeq(sch.sections, LAMBDA s : SectionId(s) # <<>> /\ ~s.isGroup)

Returned == pc = "split_returned" /\ Strip(raw) # <<>>

\* Where a character of the text before the insertions sits after them.
Shifted(r) ==
    IF r <= occ THEN r
    ELSE r + TotalLen(SubSeq(gaps, 1, Min({r - occ, Len(gaps)})))

(* C3: whitespace tolerance.  Once whitespace has been inserted between   *)
(* the characters of an occurrence of the anchor, the resolver returns    *)
(* the same character it returned before the insertions; in particular it *)
(* still returns the first character of that occurrence when it did so    *)
(* on the text without the inserted whitespace.                            *)
C3_WhitespaceTolerance ==
    pc = "noisy_resolved" =>
        /\ found = Shifted(found_clean)
        /\ found_clean = occ => found = occ

C3_Witness ==
    /\ pc = "noisy_resolved"
    /\ found = occ
    /\ occ > 0
    /\ \E k \in DOMAIN gaps : "\n" \in {gaps[k][i] : i \in DOMAIN gaps[k]}

\* The search offset of a leaf: its parent's anchor when found, else 0.
SearchFrom(sec) ==
    LET a == AnchorOf(split.group_anchor, ParentOf(sec))
    IN  IF ParentOf(sec) # NoneT /\ a >= 0 THEN a ELSE 0

HasTwoStartCandidates(sec) ==
    LET c == _get_anchor_candidates(sec, "start")
    IN  Len(c) = 2 /\ UpperStr(StripAllWs(c[1])) # UpperStr(StripAllWs(c[2]))

(* C2 as stated: for a leaf with start candidates [B, A] and a text in     *)
(* which A first occurs before B first occurs, the resolved start is an    *)
(* occurrence of B, for any parent group.  (Texts with the ligature are    *)
(* left out here, so that a violation is one of candidate order.)          *)
C2_FirstListedAlwaysWins ==
    Returned =>
        \A i \in DOMAIN split.spans :
            LET sec == LeafDescriptors(schema)[i]
                c == _get_anchor_candidates(sec, "start")
            IN  ( /\ HasTwoStartCandidates(sec)
                  /\ \A k \in DOMAIN raw : raw[k] # Ligature
                  /\ Occurs(raw, c[1]) /\ Occurs(raw, c[2])
                  /\ Min(OccurrenceOffsets(raw, c[2])) < Min(OccurrenceOffsets(raw, c[1])) )
                => split.spans[i].start_idx \in OccurrenceOffsets(raw, c[1])

(* C2 as amended: candidate order decides within one search pass.  For a   *)
(* leaf with start candidates [B, A], the start is the resolver's result   *)
(* for B from the leaf's search offset (its parent's anchor, else 0)       *)
(* whenever B is found from there; A's result is taken only when B is not  *)
(* found at or after that offset, even if A occurs earlier in the text.    *)
C2_FirstListedWinsInScope ==
    Returned =>
        \A i \in DOMAIN split.spans :
            LET sec == LeafDescriptors(schema)[i]
                c == _get_anchor_candidates(sec, "start")
                np == _build_norm_map(raw)
                rB == _find_heading_idx_fuzzy(raw, c[1], SearchFrom(sec), np)
                rA == _find_heading_idx_fuzzy(raw, c[2], SearchFrom(sec), np)
                s == split.spans[i].start_idx
            IN  HasTwoStartCandidates(sec) =>
                    /\ rB >= 0 => s = rB
                    /\ (rB < 0 /\ rA >= 0) => s = rA
                    /\ (rB >= 0 /\ \A k \in DOMAIN raw : raw[k] # Ligature)
                          => s \in OccurrenceOffsets(raw, c[1])

\* B is listed first and wins although A occurs earlier in the text.
C2_Witness ==
    /\ Returned
    /\ \E i \in DOMAIN split.spans :
          LET sec == LeafDescriptors(schema)[i]
              c == _get_anchor_candidates(sec, "start")
              s == split.spans[i].start_idx
          IN  /\ HasTwoStartCandidates(sec)
              /\ Occurs(raw, c[1]) /\ Occurs(raw, c[2])
              /\ s \in OccurrenceOffsets(raw, c[1])
              /\ SearchFrom(sec) > 0
              /\ \E a \in OccurrenceOffsets(raw, c[2]) : SearchFrom(sec) <= a /\ a < s

\* The first offset at or after i that holds no whitespace.
PastWhitespace(text, i) ==
    Min({j \in i .. Len(text) : j = Len(text) \/ ~IsSpace(text[j + 1])})

AnchorsAbsent(text, sec) ==
    \A k \in DOMAIN _get_anchor_candidates(sec, "start") :
        ~Occurs(text, _get_anchor_candidates(sec, "start")[k])

(* C4: non-drop guarantee.  A leaf whose start anchors occur nowhere in    *)
(* the text while its parent group's anchor is found has a leaf node with  *)
(* its id in the output, and its span starts at the parent anchor offset   *)
(* advanced past the whitespace that follows immediately.                  *)
C4_LeafNeverDropped ==
    Returned =>
        \A i \in DOMAIN LeafDescriptors(schema) :
            LET sec == LeafDescriptors(schema)[i]
                ga == AnchorOf(split.group_anchor, ParentOf(sec))
            IN  (AnchorsAbsent(raw, sec) /\ ParentOf(sec) # NoneT /\ ga >= 0) =>
                    /\ \E n \in DOMAIN split.out :
                          split.out[n].id = SectionId(sec) /\ ~split.out[n].isGroup
                    /\ i \in DOMAIN split.spans
                    /\ split.spans[i].sec_id = SectionId(sec)
                    /\ split.spans[i].start_idx = PastWhitespace(raw, ga)

C4_Witness ==
    /\ Returned
    /\ \E i \in DOMAIN LeafDescriptors(schema) :
          LET sec == LeafDescriptors(schema)[i]
              ga == AnchorOf(split.group_anchor, ParentOf(sec))
          IN  /\ AnchorsAbsent(raw, sec) /\ ParentOf(sec) # NoneT /\ ga > 0
              /\ _get_anchor_candidates(sec, "start") # <<>>
              /\ split.spans[i].start_idx = ga
              /\ \E n \in DOMAIN split.out :
                    split.out[n].id = SectionId(sec) /\ ~split.out[n].isGroup

HasNode(id, isGroup) ==
    \E n \in DOMAIN split.out : split.out[n].id = id /\ split.out[n].isGroup = isGroup

GroupIds(sch) == {GroupId(sch.groups[i]) : i \in DOMAIN sch.groups} \ {<<>>}
LeafIds(sch) == {SectionId(LeafDescriptors(sch)[i]) : i \in DOMAIN LeafDescriptors(sch)}

(* C7 as stated: when two entries of schema.sections share an id and       *)
(* differ in isGroup, the output holds both the group node and the leaf    *)
(* node of that id.                                                        *)
C7_BothSectionEntriesSurvive ==
    Returned =>
        \A i, j \in DOMAIN schema.sections :
            LET a == schema.sections[i]
                b == schema.sections[j]
            IN  (SectionId(a) = SectionId(b) /\ SectionId(a) # <<>>
                 /\ a.isGroup /\ ~b.isGroup)
                => HasNode(SectionId(a), TRUE) /\ HasNode(SectionId(a), FALSE)

(* C7 as amended: group nodes come from schema.groups only.  When a group  *)
(* of schema.groups and a leaf of schema.sections share an id, both nodes  *)
(* are in the output; an isGroup entry of schema.sections adds no node.    *)
C7_GroupAndLeafOfOneIdSurvive ==
    Returned =>
        /\ \A id \in GroupIds(schema) : HasNode(id, TRUE)
        /\ \A id \in LeafIds(schema) : HasNode(id, FALSE)
        /\ \A n \in DOMAIN split.out :
              split.out[n].isGroup => split.out[n].id \in GroupIds(schema)

C7_Witness ==
    /\ Returned
    /\ \E id \in GroupIds(schema) \cap LeafIds(schema) :
          HasNode(id, TRUE) /\ HasNode(id, FALSE)
    /\ \E i \in DOMAIN schema.sections : schema.sections[i].isGroup

(* C8: no duplicate keys.  The output holds no two nodes with the same     *)
(* (id, isGroup), and the node kept for a key is the first node with that  *)
(* key in the sorted list.                                                 *)
C8_NoDuplicateKeys ==
    pc = "split_returned" =>
        /\ \A m, n \in DOMAIN split.out :
              NodeKey(split.out[m]) = NodeKey(split.out[n]) => m = n
        /\ \A n \in DOMAIN split.out :
              LET same == {k \in DOMAIN split.all_nodes :
                              NodeKey(split.all_nodes[k].node) = NodeKey(split.out[n])}
              IN  same # {} /\ split.out[n] = split.all_nodes[Min(same)].node
        /\ \A k \in DOMAIN split.all_nodes :
              HasNode(split.all_nodes[k].node.id, split.all_nodes[k].node.isGroup)

\* A key listed twice with different nodes, once in the output.
C8_Witness ==
    /\ pc = "split_returned"
    /\ \E j, k \in DOMAIN split.all_nodes :
          /\ j < k
          /\ NodeKey(split.all_nodes[j].node) = NodeKey(split.all_nodes[k].node)
          /\ split.all_nodes[j].node # split.all_nodes[k].node
          /\ ~split.all_nodes[j].node.isGroup
    /\ \E j, k \in DOMAIN split.all_nodes :
          /\ j < k
          /\ NodeKey(split.all_nodes[j].node) = NodeKey(split.all_nodes[k].node)
          /\ split.all_nodes[j].node.isGroup


\* The entries of the sorted list that the de-duplication keeps: the output
\* is their nodes, in this order.
KeptEntries ==
    {k \in DOMAIN split.all_nodes :
        \A j \in 1 .. k - 1 :
            NodeKey(split.all_nodes[j].node) # NodeKey(split.all_nodes[k].node)}

\* A group's position in the document: the least of its found anchor and
\* its children's span starts; Unresolved when it has neither.
GroupPosition(gid) ==
    LET own == IF AnchorOf(split.group_anchor, gid) >= 0
               THEN {split.group_anchor[gid]} ELSE {}
        kids == {split.spans[i].start_idx :
                    i \in {n \in DOMAIN split.spans : split.spans[n].parentId = gid}}
    IN  IF own \cup kids = {} THEN Unresolved ELSE Min(own \cup kids)

\* The position in the document of the k-th entry: a leaf's span start (its
\* sort key is start + 1), a group's GroupPosition.
DocPosition(k) ==
    IF split.all_nodes[k].node.isGroup
    THEN GroupPosition(split.all_nodes[k].node.id)
    ELSE split.all_nodes[k].pos - 1

(* C11: document-order output.  Of any two nodes of the output the one     *)
(* with the smaller position in the document comes first, and at equal     *)
(* position a group comes before a leaf; so a leaf that starts at p never  *)
(* follows a group whose position is p + 1.                                *)
C11_DocumentOrder ==
    Returned =>
        \A i, j \in KeptEntries :
            i < j =>
                /\ DocPosition(i) <= DocPosition(j)
                /\ DocPosition(i) = DocPosition(j) =>
                      ~(~split.all_nodes[i].node.isGroup /\ split.all_nodes[j].node.isGroup)

----------------------------------------------------------------------------
(* Claims about the parse handler.                                         *)

Done == pc = "parse_done"

\* The request supplies no schema: no inline object (or an empty one) and
\* no schema_path (or an empty one).
SuppliesNoSchema(r) ==
    /\ r.cv_schema.absent \/ r.cv_schema.empty
    /\ r.schema_path = NoneT \/ r.schema_path = <<>>

Mode == resp.diagnostics.parsing_mode

(* C1: no-schema invariant.  A request whose extracted text is not blank   *)
(* and that supplies no schema is answered ok:true in mode                 *)
(* fallback_unknown with exactly one section: id "unknown", title          *)
(* "UNKNOWN", the full raw text, isGroup false.                            *)
C1_NoSchemaSingleUnknown ==
    (Done /\ SuppliesNoSchema(req) /\ Strip(req.file_text) # <<>>) =>
        /\ resp.ok
        /\ Mode = "fallback_unknown"
        /\ Len(resp.sections) = 1
        /\ resp.sections[1].id = T_unknown
        /\ resp.sections[1].title = T_UNKNOWN
        /\ resp.sections[1].text = Strip(req.file_text)
        /\ resp.sections[1].text = resp.raw_text
        /\ resp.sections[1].isGroup = FALSE
        /\ resp.sections[1].parentId = NoneT

C1_Witness ==
    /\ Done /\ SuppliesNoSchema(req)
    /\ req.file_text = ScenarioText
    /\ resp.ok /\ Mode = "fallback_unknown"
    /\ resp.sections[1].text = ScenarioText

OutLeaves == SelectSeq(split.out, LAMBDA s : ~s.isGroup)
NonEmptyLeaves ==
    Cardinality({i \in DOMAIN OutLeaves : Strip(OutLeaves[i].text) # <<>>})
TotalLeafChars == SumLen([i \in DOMAIN OutLeaves |-> Strip(OutLeaves[i].text)])

PassedAnchorCheck == ~schema.absent /\ anchor_match.reason = "none"

(* C6: leaf-content check.  When a schema was supplied, passed the anchor  *)
(* check and the output has at least one leaf, the mode is                 *)
(* fallback_unknown if fewer than 30% of the leaves have non-blank text or *)
(* the trimmed leaf texts sum to fewer than 200 characters, and schema     *)
(* otherwise.                                                              *)
C6_LeafContentCheck ==
    (Done /\ PassedAnchorCheck /\ Len(OutLeaves) >= 1) =>
        /\ resp.ok
        /\ Mode = IF \/ 10 * NonEmptyLeaves < 3 * Len(OutLeaves)
                     \/ TotalLeafChars < 200
                  THEN "fallback_unknown" ELSE "schema"
        /\ Mode = "fallback_unknown" => resp.sections = <<UnknownSection(raw)>>
        /\ Mode = "schema" => resp.sections = NormalizeSections(split.out)

\* Five leaves, four of them empty, and text enough to pass the length rule.
C6_Witness ==
    /\ Done /\ PassedAnchorCheck
    /\ Len(OutLeaves) = 5 /\ NonEmptyLeaves = 1 /\ TotalLeafChars >= 200
    /\ Mode = "fallback_unknown"

IsScenario == req.file_text = ScenarioText /\ req.cv_schema = ScenarioSchema

T_DidThings == <<"D","i","d"," ","t","h","i","n","g","s",".">>

\* sections is the pair [g1, l1 "Did things."] of the reference scenario.
IsScenarioPair(sections) ==
    /\ Len(sections) = 2
    /\ sections[1].id = T_g1 /\ sections[1].isGroup /\ sections[1].text = <<>>
    /\ sections[2].id = T_l1 /\ ~sections[2].isGroup
    /\ sections[2].text = T_DidThings

(* C9 as stated: for the reference scenario the output is exactly the two  *)
(* nodes g1 (group, no text) and l1 (leaf, "Did things."), in that order.  *)
C9_ScenarioOutputIsPair ==
    (Done /\ IsScenario) => IsScenarioPair(resp.sections)

(* C9 as amended: for the reference scenario the splitter returns exactly  *)
(* the two nodes g1 and l1 "Did things.", heading line stripped; the parse *)
(* response does not carry them: the leaf text is 11 characters, fewer     *)
(* than 200, so the response is the single UNKNOWN node in mode            *)
(* fallback_unknown.                                                       *)
C9_ScenarioSplitsThenFallsBack ==
    (Done /\ IsScenario) =>
        /\ IsScenarioPair(split.out)
        /\ split.out[2].parentId = T_g1
        /\ resp.ok
        /\ Mode = "fallback_unknown"
        /\ resp.sections = <<UnknownSection(ScenarioText)>>
        /\ resp.diagnostics.schema_issues = "leaf_chars_low"

C9_Witness ==
    /\ Done /\ IsScenario
    /\ split.out[2].text = T_DidThings
    /\ TotalLeafChars = 11
    /\ Len(resp.sections) = 1

\* The splitter ran to its end and returned no node at all.
SplitterGaveNothing == split_calls = 1 /\ ~split.crashed /\ split.out = <<>>

(* C12: zero-node fallback.  When a schema was supplied and passed the     *)
(* anchor check and the splitter returned zero nodes, the response is      *)
(* ok:true in mode fallback_unknown with the single UNKNOWN node holding   *)
(* the raw text and a fallback reason in the diagnostics.                  *)
C12_ZeroNodesFallBack ==
    (Done /\ PassedAnchorCheck /\ SplitterGaveNothing) =>
        /\ resp.ok
        /\ Mode = "fallback_unknown"
        /\ resp.sections = <<UnknownSection(raw)>>
        /\ resp.diagnostics.schema_issues # "none"

\* The three soft checks of a parse with a schema, read off the request's
\* own record: the anchor check, the structural check and the leaf-content
\* check on what the splitter returned.
SplitterReturned == split_calls = 1 /\ ~split.crashed /\ split.out # <<>>

AnchorCheckFailed == ~schema.absent /\ anchor_match.should_fallback

StructuralCheckFailed ==
    /\ PassedAnchorCheck /\ SplitterReturned
    /\ \E n \in DOMAIN split.out : split.out[n].isGroup
    /\ Len(OutLeaves) = 0

LeafContentCheckFailed ==
    /\ PassedAnchorCheck /\ SplitterReturned
    /\ Len(OutLeaves) >= 1
    /\ \/ 10 * NonEmptyLeaves < 3 * Len(OutLeaves)
       \/ TotalLeafChars < 200

(* C13: soft failures are successful fallbacks.  Whenever the anchor      *)
(* check, the structural check (at least one group and no leaf) or the     *)
(* leaf-content check fails, the response is ok:true in mode               *)
(* fallback_unknown, its sections are exactly the one UNKNOWN node with    *)
(* the complete raw text, and the diagnostics carry a reason in            *)
(* schema_issues and in the summary.                                       *)
C13_SoftFailuresFallBack ==
    (Done /\ (AnchorCheckFailed \/ StructuralCheckFailed \/ LeafContentCheckFailed)) =>
        /\ resp.ok
        /\ Mode = "fallback_unknown"
        /\ resp.sections = <<UnknownSection(raw)>>
        /\ resp.raw_text = raw
        /\ resp.diagnostics.schema_issues # "none"
        /\ resp.diagnostics.summary.kind = "schema_fallback"
        /\ resp.diagnostics.summary.reason = resp.diagnostics.schema_issues

\* The splitter returned one group and no leaf, and the parse fell back.
C13_Witness ==
    /\ Done /\ StructuralCheckFailed
    /\ resp.ok /\ Len(resp.sections) = 1
    /\ resp.diagnostics.summary.reason = "only_groups"

(* C14: empty input is a hard failure.  When the text extracted from the   *)
(* file is empty or whitespace only, the response is ok:false with the     *)
(* empty-text error, no sections and diagnostics in mode error, with or    *)
(* without a schema in the request; no fallback node is produced, and the  *)
(* schema is neither loaded nor checked against anchors nor split.         *)
C14_EmptyInputFails ==
    (Done /\ Strip(req.file_text) = <<>>) =>
        /\ ~resp.ok
        /\ resp.error = "parse failed: empty text"
        /\ resp.sections = <<>>
        /\ Mode = "error"
        /\ resp.diagnostics.total_sections = 0
        /\ schema = NoSchema
        /\ anchor_match = NoAnchorMatch
        /\ split_calls = 0 /\ split = EmptySplit

\* A whitespace-only file sent with an inline schema.
C14_Witness ==
    /\ Done
    /\ req.file_text = <<"\n", " ">>
    /\ HasInlineSchema(req)
    /\ ~resp.ok /\ Mode = "error"

(* C15: schema shape error.  For every supplied schema whose sections are  *)
(* missing, not a list or an empty list, or whose groups are present but   *)
(* not a list, the parse fails (ok:false) and is never answered as a       *)
(* successful parse in mode schema or fallback_unknown.                    *)
C15_BadShapeFails ==
    (Done /\ ~IsBlankText(raw) /\ ~schema.absent /\ ~_validate_schema_shape(schema)) =>
        /\ ~resp.ok
        /\ Mode \notin {"schema", "fallback_unknown"}

(* C16: splitter crash containment.  When the splitter raises while it     *)
(* walks schema.groups or schema.sections (an entry that is not an         *)
(* object), the response is ok:false with no sections and diagnostics in   *)
(* mode error that name the splitter error; the splitter was invoked once  *)
(* and not again, and the request still ends with a response.              *)
C16_SplitterCrashContained ==
    /\ split_calls <= 1
    /\ (pc \notin {"parse_read", "parse_schema", "parse_anchor", "parse_split"}
          /\ split.crashed) =>
            /\ Done
            /\ ~resp.ok
            /\ resp.error = "schema splitter crashed"
            /\ resp.sections = <<>>
            /\ resp.raw_text = raw
            /\ Mode = "error"
            /\ resp.diagnostics.schema_issues = "Schema splitter error"
            /\ split_calls = 1

\* A schema whose sections list holds a string after a well-formed leaf.
C16_Witness ==
    /\ Done /\ split.crashed
    /\ \E i \in DOMAIN schema.sections : ~schema.sections[i].is_dict
    /\ \E i \in DOMAIN schema.sections : schema.sections[i].is_dict
    /\ ~resp.ok /\ split_calls = 1

\* The anchor check has run for the request.
AnchorCheckRan == anchor_match.reason # "not_run"

(* C17: anchor-applicability rule.  With total the number of anchors       *)
(* collected from the schema and matched the number of them found in the   *)
(* text, the check does not fall back when total = 0; otherwise it falls   *)
(* back exactly when (total >= 2 and matched = 0) or matched/total < 0.10, *)
(* a single anchor that is not found included; match_ratio is              *)
(* matched/total, and 0 <= matched <= total.                               *)
C17_AnchorRule ==
    AnchorCheckRan =>
        LET total == anchor_match.total
            matched == anchor_match.matched
        IN  /\ total = Len(_extract_schema_anchors(schema))
            /\ 0 <= matched /\ matched <= total
            /\ total = 0 => ~anchor_match.should_fallback
            /\ total > 0 =>
                 /\ anchor_match.should_fallback <=>
                       ((total >= 2 /\ matched = 0) \/ 10 * matched < total)
                 /\ anchor_match.match_ratio = <<matched, total>>
            /\ (total = 1 /\ matched = 0) => anchor_match.should_fallback
            /\ (Done /\ anchor_match.should_fallback) => Mode = "fallback_unknown"

\* One anchor of eleven is found: the ratio rule alone drives the fallback.
C17_Witness ==
    /\ Done /\ AnchorCheckRan
    /\ anchor_match.total = 11 /\ anchor_match.matched = 1
    /\ anchor_match.should_fallback
    /\ Mode = "fallback_unknown"

\* The anchor occurs in the text once both are stripped of all whitespace
\* and uppercased.
FoundWhenNormalized(text, a) ==
    /\ StripAllWs(a) # <<>>
    /\ Contains(UpperStr(StripAllWs(text)), UpperStr(StripAllWs(a)))

(* C18: the gate and the resolver agree on "found".  The anchor check      *)
(* counts an anchor as matched exactly when its whitespace-stripped,       *)
(* uppercased form is a substring of the text normalized the same way, so  *)
(* every anchor the resolver locates from offset 0 is counted, and a       *)
(* schema all of whose anchors the resolver locates is not sent to         *)
(* fallback_unknown by the check.                                          *)
C18_GateCountsWhatResolverFinds ==
    AnchorCheckRan =>
        LET anchors == _extract_schema_anchors(schema)
            np == _build_norm_map(raw)
            located == {i \in DOMAIN anchors :
                           _find_heading_idx_fuzzy(raw, anchors[i], 0, np) >= 0}
        IN  /\ anchor_match.matched =
                  Cardinality({i \in DOMAIN anchors : FoundWhenNormalized(raw, anchors[i])})
            /\ anchor_match.matched >= Cardinality(located)
            /\ located = DOMAIN anchors => ~anchor_match.should_fallback

----------------------------------------------------------------------------
(* Claims about the spans and the group nodes.                             *)

\* The entries of schema.sections that are leaf descriptors (isGroup false).
AllLeafEntries(sch) == SelectSeq(sch.sections, LAMBDA s : ~s.isGroup)

(* C19 as stated: for every non-blank text and every schema, each entry of *)
(* schema.sections with isGroup false produces exactly one span.           *)
C19_OneSpanPerLeafEntry ==
    Returned =>
        /\ Len(split.spans) = Len(AllLeafEntries(schema))
        /\ \A i \in DOMAIN split.spans :
              split.spans[i].sec_id = SectionId(AllLeafEntries(schema)[i])

(* C19 as amended: for every non-blank text and every schema whose groups  *)
(* and sections are lists of objects, each leaf descriptor with a          *)
(* non-blank id produces exactly one span, in schema order, with its id    *)
(* and parent and a start inside the text, whether it has no anchors,      *)
(* anchors that match nothing, or a missing or unknown parentId; a leaf    *)
(* entry without an id produces no span.                                   *)
C19_OneSpanPerIdentifiedLeaf ==
    Returned =>
        /\ Len(split.spans) = Len(LeafDescriptors(schema))
        /\ \A i \in DOMAIN split.spans :
              LET sec == LeafDescriptors(schema)[i]
              IN  /\ split.spans[i].sec_id = SectionId(sec)
                  /\ split.spans[i].parentId = ParentOf(sec)
                  /\ split.spans[i].start_idx \in 0 .. Len(raw)
                  /\ split.spans[i].start_idx <= split.spans[i].end_idx
                  /\ split.spans[i].end_idx <= Len(raw)

\* A leaf with no anchors and an unknown parent, listed after a leaf entry
\* without an id: one span, starting at offset 0.
C19_Witness ==
    /\ Returned
    /\ Len(AllLeafEntries(schema)) = 2 /\ Len(split.spans) = 1
    /\ _get_anchor_candidates(LeafDescriptors(schema)[1], "start") = <<>>
    /\ ParentOf(LeafDescriptors(schema)[1]) = T_g2
    /\ AnchorOf(split.group_anchor, T_g2) < 0
    /\ split.spans[1].start_idx = 0
    /\ split.spans[1].text # <<>>

\* The ids of the entries of schema.groups.
DeclaredGroupIds == {GroupId(schema.groups[i]) : i \in DOMAIN schema.groups}

\* Every group node of sections has no text and the id of a schema group.
GroupsAreStructural(sections) ==
    \A n \in DOMAIN sections :
        sections[n].isGroup =>
            /\ sections[n].text = <<>>
            /\ sections[n].id \in DeclaredGroupIds
            /\ sections[n].parentId = NoneT

(* C20: groups never carry text.  In everything the splitter returns and   *)
(* in every parse response in mode schema, each node with isGroup true     *)
(* has the empty text and the id of an entry of schema.groups; an entry    *)
(* of schema.sections with isGroup true yields no node of its own, and     *)
(* text is sliced for leaf descriptors only.                               *)
C20_GroupsCarryNoText ==
    /\ (split_calls = 1 /\ ~schema.absent) => GroupsAreStructural(split.out)
    /\ (Done /\ resp.ok /\ Mode = "schema") =>
          /\ GroupsAreStructural(resp.sections)
          /\ \A n \in DOMAIN resp.sections :
                resp.sections[n].text # <<>> => ~resp.sections[n].isGroup
          /\ \A i \in DOMAIN schema.sections :
                ( /\ schema.sections[i].isGroup
                  /\ SectionId(schema.sections[i]) \notin DeclaredGroupIds ) =>
                    \A n \in DOMAIN resp.sections :
                        resp.sections[n].id # SectionId(schema.sections[i])

\* A response in mode schema with the group g1 and its leaves holding the
\* text, for a schema that also lists a group entry g2 among its sections.
C20_Witness ==
    /\ Done /\ resp.ok /\ Mode = "schema"
    /\ \E i \in DOMAIN schema.sections : schema.sections[i].isGroup
    /\ \E n \in DOMAIN resp.sections :
          resp.sections[n].isGroup /\ resp.sections[n].id = T_g1
    /\ \E n \in DOMAIN resp.sections :
          ~resp.sections[n].isGroup /\ Len(resp.sections[n].text) >= 200

----------------------------------------------------------------------------
(* Claims about span bounds, start and end resolution.                     *)

\* What the end search of the i-th span gives before the last guard: the
\* first end candidate the resolver finds after the start, else the nearest
\* found group anchor past the start, else the end of the text.
EndAsSearched(i) ==
    LET sec == LeafDescriptors(schema)[i]
        s == split.spans[i].start_idx
        np == _build_norm_map(raw)
        cands == _get_anchor_candidates(sec, "end")
        hits == {k \in DOMAIN cands : _find_heading_idx_fuzzy(raw, cands[k], s + 1, np) >= 0}
        later == {split.group_anchor[g] : g \in DOMAIN split.group_anchor}
                     \cap (s + 1 .. Len(raw))
    IN  IF hits # {} THEN _find_heading_idx_fuzzy(raw, cands[Min(hits)], s + 1, np)
        ELSE IF later # {} THEN Min(later) ELSE Len(raw)

(* C21: span bounds.  For every non-blank text every span satisfies        *)
(* 0 <= start < end <= len(raw).  The end search itself always gives an    *)
(* offset strictly greater than the start, which the span keeps, so the    *)
(* final guard (end := len(raw) when end <= start) has nothing to repair   *)
(* and no span has zero or negative length.                                *)
C21_SpanBounds ==
    Returned =>
        \A i \in DOMAIN split.spans :
            LET s == split.spans[i].start_idx
                e == split.spans[i].end_idx
            IN  /\ 0 <= s /\ s < e /\ e <= Len(raw)
                /\ EndAsSearched(i) > s
                /\ e = EndAsSearched(i)

\* A span strictly inside the text, closed by its end anchor, whose end
\* anchor also occurs at the start of the span.
C21_Witness ==
    /\ Returned
    /\ \E i \in DOMAIN split.spans :
          LET s == split.spans[i].start_idx
              e == split.spans[i].end_idx
              cands == _get_anchor_candidates(LeafDescriptors(schema)[i], "end")
          IN  /\ 0 < s /\ e < Len(raw)
              /\ cands # <<>>
              /\ _find_heading_idx_fuzzy(raw, cands[1], s, _build_norm_map(raw)) = s
              /\ e = _find_heading_idx_fuzzy(raw, cands[1], s + 1, _build_norm_map(raw))

\* Some start candidate of sec occurs in the text at or after offset g,
\* whitespace and letter case ignored.
StartOccursFrom(sec, g) ==
    LET c == _get_anchor_candidates(sec, "start")
    IN  \E k \in DOMAIN c : \E r \in OccurrenceOffsets(raw, c[k]) : r >= g

NoLigature == \A k \in DOMAIN raw : raw[k] # Ligature

(* C22: scoped-then-unscoped start resolution.  For a leaf whose parent    *)
(* group anchor was found at offset g: if a start candidate occurs at or   *)
(* after g, the start is at or after g and begins an occurrence of a       *)
(* candidate; only if none occurs at or after g is the start the result    *)
(* of the search from offset 0.  For a leaf with no parent or with a       *)
(* parent that was not found the search starts at 0.                       *)
C22_ScopedThenUnscoped ==
    Returned =>
        \A i \in DOMAIN split.spans :
            LET sec == LeafDescriptors(schema)[i]
                c == _get_anchor_candidates(sec, "start")
                g == AnchorOf(split.group_anchor, ParentOf(sec))
                scoped == ParentOf(sec) # NoneT /\ g >= 0
                s == split.spans[i].start_idx
                from0 == UNION {OccurrenceOffsets(raw, c[k]) : k \in DOMAIN c}
            IN  /\ (scoped /\ StartOccursFrom(sec, g)) =>
                      /\ s >= g
                      /\ \E k \in DOMAIN c : s \in OccurrenceOffsets(raw, c[k])
                /\ (scoped /\ ~StartOccursFrom(sec, g) /\ from0 # {}) =>
                      /\ s < g
                      /\ \E k \in DOMAIN c : s \in OccurrenceOffsets(raw, c[k])
                /\ (~scoped /\ from0 # {}) =>
                      \E k \in DOMAIN c :
                          /\ OccurrenceOffsets(raw, c[k]) # {}
                          /\ s = Min(OccurrenceOffsets(raw, c[k]))

----------------------------------------------------------------------------
(* Claims about the resolver and the normalized index.                     *)

Resolved == pc \in {"clean_resolved", "noisy_resolved"}

\* The offsets at or after start_from at which the needle occurs in the
\* text, whitespace and letter case ignored.
OccurrencesFromStart == {r \in OccurrenceOffsets(raw, needle) : r >= start_from}

(* C23: resolver result range.  The resolver returns -1 or a raw offset r  *)
(* with start_from <= r < len(raw) at which raw[r] is a non-whitespace     *)
(* character that begins the earliest whitespace-insensitive,              *)
(* case-insensitive occurrence of the candidate at or after start_from; it *)
(* returns -1 exactly when there is no such occurrence.                    *)
C23_ResolverResult ==
    Resolved =>
        /\ found = -1 <=> OccurrencesFromStart = {}
        /\ found # -1 =>
              /\ start_from <= found /\ found < Len(raw)
              /\ ~IsSpace(raw[found + 1])
              /\ found = Min(OccurrencesFromStart)

\* The found group anchors strictly after offset s.
GroupAnchorsAfter(s) ==
    {split.group_anchor[g] : g \in DOMAIN split.group_anchor} \cap (s + 1 .. Len(raw))

\* The end candidates of sec the resolver finds searching from s + 1, by
\* their place in the list.
EndCandidatesFoundAfter(sec, s) ==
    LET c == _get_anchor_candidates(sec, "end")
    IN  {k \in DOMAIN c :
            _find_heading_idx_fuzzy(raw, c[k], s + 1, _build_norm_map(raw)) >= 0}

(* C24: end boundary rule.  A leaf's end is the resolver's result for the  *)
(* first end candidate, in list order, found strictly after the start; if  *)
(* none is found, the smallest found group-anchor offset strictly greater  *)
(* than the start; if there is none, len(raw).  The end is strictly after  *)
(* the start, and a leaf without end anchors does not extend past the      *)
(* next group anchor.                                                      *)
C24_EndBoundary ==
    Returned =>
        \A i \in DOMAIN split.spans :
            LET sec == LeafDescriptors(schema)[i]
                c == _get_anchor_candidates(sec, "end")
                s == split.spans[i].start_idx
                e == split.spans[i].end_idx
                hit == EndCandidatesFoundAfter(sec, s)
            IN  /\ e > s
                /\ hit # {} =>
                      e = _find_heading_idx_fuzzy(raw, c[Min(hit)], s + 1,
                                                  _build_norm_map(raw))
                /\ (hit = {} /\ GroupAnchorsAfter(s) # {}) => e = Min(GroupAnchorsAfter(s))
                /\ (hit = {} /\ GroupAnchorsAfter(s) = {}) => e = Len(raw)
                /\ c = <<>> => \A a \in GroupAnchorsAfter(s) : e <= a

\* A leaf without end anchors that stops at the next group's anchor, short
\* of the end of the text.
C24_Witness ==
    /\ Returned /\ NoLigature
    /\ \E i \in DOMAIN split.spans :
          /\ _get_anchor_candidates(LeafDescriptors(schema)[i], "end") = <<>>
          /\ _get_anchor_candidates(LeafDescriptors(schema)[i], "start") # <<>>
          /\ split.spans[i].end_idx \in GroupAnchorsAfter(split.spans[i].start_idx)
          /\ split.spans[i].end_idx < Len(raw)
          /\ split.spans[i].text # <<>>

(* C25: normalized index consistency.  For every raw string, characters    *)
(* whose uppercase form is longer than one character included,             *)
(* _build_norm_map returns (norm, norm_to_raw, raw_to_norm) with           *)
(* len(norm) = len(norm_to_raw), norm[i] the uppercase of                  *)
(* raw[norm_to_raw[i]], norm_to_raw strictly increasing, raw_to_norm       *)
(* non-decreasing of length len(raw) + 1, and                              *)
(* raw_to_norm[norm_to_raw[i]] = i; for the empty string norm is empty     *)
(* and raw_to_norm has length 1.                                           *)
C25_NormIndexConsistent ==
    Resolved =>
    LET np == _build_norm_map(raw)
        n2r == np.norm_to_raw
        r2n == np.raw_to_norm
    IN  /\ Len(np.norm) = Len(n2r)
        /\ \A i \in DOMAIN n2r :
              /\ i \in DOMAIN np.norm
              /\ <<np.norm[i]>> = UpperStr(<<raw[n2r[i] + 1]>>)
              /\ r2n[n2r[i] + 1] = i - 1
        /\ \A i, j \in DOMAIN n2r : i < j => n2r[i] < n2r[j]
        /\ Len(r2n) = Len(raw) + 1
        /\ \A i, j \in DOMAIN r2n : i < j => r2n[i] <= r2n[j]
        /\ raw = <<>> => (np.norm = <<>> /\ Len(r2n) = 1)

----------------------------------------------------------------------------
(* Claims about the restated heading and the text normalizer.              *)

SplitterRan == split_calls = 1 /\ ~schema.absent /\ ~split.crashed

Normalized(text) == UpperStr(StripAllWs(text))

IsPrefix(p, text) == Len(p) <= Len(text) /\ SubSeq(text, 1, Len(p)) = p

\* The trimmed slice raw[start:end] of the i-th span.
SliceOf(i) ==
    Strip(SubSeq(raw, split.spans[i].start_idx + 1, split.spans[i].end_idx))

\* The numbers k in 1..3 such that the first k lines of the slice hold the
\* whole start anchor a, which the slice begins with.
HeadingLineCounts(slice, a) ==
    {k \in 1 .. Min({3, Len(SplitLines(slice))}) :
        /\ Normalized(a) # <<>>
        /\ IsPrefix(Normalized(a),
                    Normalized(JoinLines(SubSeq(SplitLines(slice), 1, k))))}

\* The slice without its first k lines and the blank lines after them.
WithoutHeadingLines(slice, k) ==
    LET lines == SplitLines(slice)
    IN  Strip(JoinLines(SubSeq(lines, k + 1, Len(lines))))

(* C26: the restated heading is stripped.  For every leaf whose slice      *)
(* begins with one of its start anchors, held by its first k <= 3 lines    *)
(* (the heading may be broken across lines, or not look like a heading),   *)
(* the leaf text is the slice without those k lines and the blank lines    *)
(* that follow them, so that no fragment of the anchor is left at the      *)
(* beginning of the text.                                                  *)
C26_RestatedHeadingStripped ==
    SplitterRan =>
        \A i \in DOMAIN split.spans :
            LET c == _get_anchor_candidates(LeafDescriptors(schema)[i], "start")
            IN  \A n \in DOMAIN c :
                    HeadingLineCounts(SliceOf(i), c[n]) # {} =>
                        split.spans[i].text =
                            WithoutHeadingLines(SliceOf(i),
                                                Min(HeadingLineCounts(SliceOf(i), c[n])))

Digits == {"0", "1", "2", "3", "4", "5", "6", "7", "8", "9"}

IsWordCh(ch) == IsAlpha(ch) \/ ch \in Digits \/ ch = "_"

\* The defects the text normalizer repairs, for the characters of the
\* model: a carriage return, a newline between two digits, a newline
\* between a one-letter word fragment and a lower-case letter.
HasUnnormalizedBreak(text) ==
    \/ \E i \in DOMAIN text : text[i] = "\r"
    \/ \E i \in 2 .. Len(text) - 1 :
          /\ text[i] = "\n"
          /\ \/ text[i - 1] \in Digits /\ text[i + 1] \in Digits
             \/ /\ text[i - 1] \in LowerLetters \cup UpperLetters
                /\ i = 2 \/ ~IsWordCh(text[i - 2])
                /\ text[i + 1] \in LowerLetters

(* C27: normalization precedes segmentation.  In every parse the text the  *)
(* splitter is called with, and so every span text it slices, has been     *)
(* through the text normalizer: it holds no carriage return, no newline    *)
(* between two digits and no newline between a one-letter word fragment    *)
(* and a following lower-case letter.                                      *)
C27_SplitterSeesNormalizedText ==
    SplitterRan =>
        /\ ~HasUnnormalizedBreak(raw)
        /\ \A i \in DOMAIN split.spans : ~HasUnnormalizedBreak(split.spans[i].text)

----------------------------------------------------------------------------
(* Claim about groups and their children.                                  *)

\* The spans whose parentId is the group gid.
ChildSpans(gid) == {i \in DOMAIN split.spans : split.spans[i].parentId = gid}

(* C28: a group precedes its children.  A group's sort position is the     *)
(* minimum of its own anchor offset, when found, and the smallest span     *)
(* start among the leaves whose parentId is that group; it is the          *)
(* unresolved position, sorted last, only when it has neither.  In every   *)
(* output each group with a child leaf comes before all its child leaves,  *)
(* whether or not its own title was found.                                 *)
C28_GroupBeforeChildren ==
    Returned =>
        /\ \A k \in DOMAIN split.all_nodes :
              LET e == split.all_nodes[k]
                  own == AnchorOf(split.group_anchor, e.node.id)
                  starts == {split.spans[i].start_idx : i \in ChildSpans(e.node.id)}
              IN  e.node.isGroup =>
                     /\ (own >= 0 \/ starts # {}) =>
                            e.pos = Min(starts \cup (IF own >= 0 THEN {own} ELSE {}))
                     /\ (own < 0 /\ starts = {}) =>
                            /\ e.pos = Unresolved
                            /\ \A j \in DOMAIN split.all_nodes :
                                  split.all_nodes[j].pos < Unresolved => j < k
        /\ \A m, n \in DOMAIN split.out :
              ( /\ split.out[m].isGroup /\ ~split.out[n].isGroup
                /\ split.out[n].parentId = split.out[m].id ) => m < n

\* A group whose title is not in the text, placed by its child: the child
\* starts past offset 0 and another leaf comes before the group.
C28_Witness ==
    /\ Returned /\ NoLigature
    /\ \E m, n \in DOMAIN split.out :
          /\ split.out[m].isGroup /\ ~split.out[n].isGroup
          /\ split.out[n].parentId = split.out[m].id
          /\ AnchorOf(split.group_anchor, split.out[m].id) < 0
          /\ m < n
          /\ \E j \in 1 .. m - 1 : ~split.out[j].isGroup

----------------------------------------------------------------------------
(* core.py: ResumeGenerator.optimize_section, one model call per attempt.  *)

\* The largest configured retry count explored.
MaxRetries == 2

HttpOk == 200

T_ab == <<"a", "b">>
T_cd == <<"c", "d">>

\* A response of the model endpoint: the POST raises (timeout, transport),
\* or answers with a status and the texts of candidates[0].content.parts.
TransportError == [raises |-> TRUE, status_code |-> 0, parts |-> <<>>]

HttpResponse(status_code, parts) ==
    [raises |-> FALSE, status_code |-> status_code, parts |-> parts]

ModelResponses ==
    { TransportError,
      HttpResponse(500, <<>>),
      HttpResponse(HttpOk, <<>>),
      HttpResponse(HttpOk, << <<" ">> >>),
      HttpResponse(HttpOk, << <<" ">> \o T_ab \o <<"\n">> >>),
      HttpResponse(HttpOk, << T_ab, <<" ">>, T_cd >>),
      HttpResponse(HttpOk, << T_cd >>) }

OriginalTexts == { <<>>, <<" ">> \o T_ab \o <<" ">>, T_ab \o <<"\n">> \o T_cd }

JdTexts == { <<>>, <<"j", "d">> }

\* _extract_text(data): the non-empty stripped part texts joined by "\n".
_extract_text(parts) ==
    LET texts == [i \in DOMAIN parts |-> Strip(parts[i])]
    IN  Strip(JoinLines(SelectSeq(texts, LAMBDA t : t # <<>>)))

\* An enforcement that never accepts the original text back.
AlwaysRejectUnchanged(enforce_rewrite, out, original_text, attempt, max_retries) ==
    IF enforce_rewrite /\ Strip(out) = Strip(original_text)
    THEN "retry" ELSE "return"

\* The rewrite enforcement: "retry" raises for another attempt, "return"
\* hands the text back.
RewriteEnforcement(enforce_rewrite, out, original_text, attempt, max_retries) ==
    IF enforce_rewrite /\ Strip(out) = Strip(original_text)
    THEN IF attempt < max_retries THEN "retry" ELSE "return"
    ELSE "return"

\* The body of the try block of one attempt: the text returned, or the
\* error raised.
AttemptOutcome(response, original_text, enforce_rewrite, attempt, max_retries) ==
    IF response.raises THEN [ok |-> FALSE, err |-> "transport", out |-> NoneT]
    ELSE IF response.status_code # HttpOk
    THEN [ok |-> FALSE, err |-> "http", out |-> NoneT]
    ELSE LET out == Strip(_extract_text(response.parts))
         IN  IF out = <<>> THEN [ok |-> FALSE, err |-> "empty", out |-> out]
             ELSE IF RewriteEnforcement(enforce_rewrite, out, original_text,
                                        attempt, max_retries) = "retry"
             THEN [ok |-> FALSE, err |-> "unchanged", out |-> out]
             ELSE [ok |-> TRUE, err |-> "", out |-> out]

\* A generator as constructed, and a call of optimize_section on it.
InitOptimize ==
    /\ pc = "optimize"
    /\ \E max_retries \in 0 .. MaxRetries, enforce_rewrite \in BOOLEAN,
          original_text \in OriginalTexts, jd_text \in JdTexts :
          opt = [state |-> "call", max_retries |-> max_retries,
                 enforce_rewrite |-> enforce_rewrite,
                 original_text |-> original_text, jd_text |-> jd_text,
                 attempt |-> 0, responses |-> <<>>,
                 last_err |-> "None", last_out |-> <<>>,
                 result |-> NoneT, error |-> ""]
    /\ raw = <<>> /\ schema = NoSchema /\ split = EmptySplit /\ split_calls = 0
    /\ req = NoReq /\ anchor_match = NoAnchorMatch /\ resp = NoResp
    /\ Idle /\ out_dir = {} /\ exports = <<>>

\* The entry of optimize_section: the arguments are stripped and an empty
\* section or job description is refused.
OptimizeEnter ==
    /\ opt.state = "call"
    /\ opt' = IF Strip(opt.original_text) = <<>>
              THEN [opt EXCEPT !.state = "raised", !.error = "original_text is empty"]
              ELSE IF Strip(opt.jd_text) = <<>>
              THEN [opt EXCEPT !.state = "raised", !.error = "jd_text is empty"]
              ELSE [opt EXCEPT !.state = "attempting",
                               !.original_text = Strip(opt.original_text),
                               !.jd_text = Strip(opt.jd_text)]
    /\ UNCHANGED <<pc, raw, schema, needle, start_from, occ, gaps, found_clean,
                   found, split, req, anchor_match, resp, split_calls,
                   out_dir, exports>>

\* One iteration of the retry loop: the POST, the handling of its answer,
\* and after a failed last attempt the raise that follows the loop.
OptimizeAttempt ==
    /\ opt.state = "attempting"
    /\ opt.attempt < opt.max_retries + 1
    /\ \E response \in ModelResponses :
          LET o == AttemptOutcome(response, opt.original_text, opt.enforce_rewrite,
                                  opt.attempt, opt.max_retries)
              seen == [opt EXCEPT !.responses = Append(@, response),
                                  !.last_out = IF o.out = NoneT THEN @ ELSE o.out]
          IN  opt' = IF o.ok
                     THEN [seen EXCEPT !.state = "returned", !.result = o.out]
                     ELSE IF opt.attempt < opt.max_retries
                     THEN [seen EXCEPT !.last_err = o.err, !.attempt = @ + 1]
                     ELSE [seen EXCEPT !.last_err = o.err, !.state = "raised",
                                       !.error = "optimize_section failed after retries"]
    /\ UNCHANGED <<pc, raw, schema, needle, start_from, occ, gaps, found_clean,
                   found, split, req, anchor_match, resp, split_calls,
                   out_dir, exports>>

NextOptimize == OptimizeEnter \/ OptimizeAttempt

\* Every POST ends, by an answer or by the client's timeout, and every
\* back-off sleep is finite: a call that can take a step takes it.
SpecOptimize == InitOptimize /\ [][NextOptimize]_vars /\ WF_vars(NextOptimize)

----------------------------------------------------------------------------
(* Claim about optimize_section.                                           *)

\* What one response is, by its content: an HTTP error (or no answer),
\* empty content, the original text again, or a changed text.
ResponseText(response) == Strip(_extract_text(response.parts))

ResponseKind(response) ==
    IF response.raises \/ response.status_code # HttpOk THEN "http_error"
    ELSE IF ResponseText(response) = <<>> THEN "empty"
    ELSE IF ResponseText(response) = Strip(opt.original_text) THEN "unchanged"
    ELSE "changed"

\* The k-th attempt (from 1) yields a text that is accepted.
AcceptedAt(k) ==
    LET kind == ResponseKind(opt.responses[k])
    IN  \/ kind = "changed"
        \/ kind = "unchanged" /\ (~opt.enforce_rewrite \/ k = opt.max_retries + 1)

OptimizeDone == opt.state \in {"returned", "raised"}

(* C29: bounded retry of optimize_section.  Whatever the responses, the    *)
(* call makes at most max_retries + 1 attempts and then ends; it returns   *)
(* at the first attempt whose non-empty text is accepted; with rewrite     *)
(* enforcement on, the original text is rejected and retried on every      *)
(* attempt before the last and returned on the last; when every attempt    *)
(* fails it raises, and it never returns empty text.                       *)
C29_BoundedRetry ==
    /\ [](pc = "optimize" =>
            LET n == Len(opt.responses)
            IN  /\ n <= opt.max_retries + 1
                /\ opt.state = "attempting" =>
                      /\ n = opt.attempt /\ n <= opt.max_retries
                      /\ \A k \in 1 .. n : ~AcceptedAt(k)
                /\ opt.state = "returned" =>
                      /\ n >= 1 /\ AcceptedAt(n)
                      /\ \A k \in 1 .. n - 1 : ~AcceptedAt(k)
                      /\ opt.result = ResponseText(opt.responses[n])
                      /\ opt.result # <<>>
                /\ (opt.state = "raised" /\ n > 0) =>
                      /\ n = opt.max_retries + 1
                      /\ \A k \in 1 .. n : ~AcceptedAt(k)
                      /\ opt.result = NoneT
                /\ \A k \in 1 .. n :
                      (opt.enforce_rewrite /\ ResponseKind(opt.responses[k]) = "unchanged") =>
                          IF k < opt.max_retries + 1
                          THEN opt.state = "returned" => n > k
                          ELSE opt.state = "returned" /\ opt.result = Strip(opt.original_text))
    /\ (pc = "optimize" ~> OptimizeDone)

\* With enforcement on, the original text comes back on every attempt and
\* is returned on the last one of several.
C29_Witness ==
    /\ pc = "optimize" /\ opt.state = "returned"
    /\ opt.enforce_rewrite /\ opt.max_retries >= 1
    /\ Len(opt.responses) = opt.max_retries + 1
    /\ \A k \in DOMAIN opt.responses : ResponseKind(opt.responses[k]) = "unchanged"
    /\ opt.result = Strip(opt.original_text)

----------------------------------------------------------------------------
(* app.py: export, one job directory and one base name, requests served    *)
(* by separate threads of the worker pool.                                 *)

\* How many export requests are in flight, and the highest version a
\* directory holds before them.
MaxExports == 3
MaxStoredVersion == 2

ExportIds == 1 .. MaxExports

\* A file <base>_v<v>.<ext> of the directory and the request that wrote
\* it; 0 stands for a request served before these.
ExportFile(v, ext, by) == [v |-> v, ext |-> ext, by |-> by]

StoredDirs ==
    { {ExportFile(n[1], n[2], 0) : n \in names} :
        names \in SUBSET ((1 .. MaxStoredVersion) \X {"docx", "pdf"}) }

\* _next_version(out_dir, base): one more than the highest version among
\* the names <base>_v<digits>.docx and <base>_v<digits>.pdf, 1 without any.
_next_version(files) ==
    IF files = {} THEN 1 ELSE Max({f.v : f \in files}) + 1

\* create_word_document_from_markdown / create_pdf_from_markdown: the file
\* of that name is created or replaced.
WriteFile(files, v, ext, by) ==
    {f \in files : ~(f.v = v /\ f.ext = ext)} \cup {ExportFile(v, ext, by)}

InitExport ==
    /\ pc = "export"
    /\ out_dir \in StoredDirs
    /\ exports = [r \in ExportIds |-> [pc |-> "start", v |-> 0]]
    /\ raw = <<>> /\ schema = NoSchema /\ split = EmptySplit /\ split_calls = 0
    /\ req = NoReq /\ anchor_match = NoAnchorMatch /\ resp = NoResp
    /\ Idle /\ opt = NoOpt

\* out_dir.mkdir(...); v = _next_version(out_dir, base)
ExportNextVersion(r) ==
    /\ exports[r].pc = "start"
    /\ exports' = [exports EXCEPT ![r] = [pc |-> "versioned", v |-> _next_version(out_dir)]]
    /\ UNCHANGED <<pc, raw, schema, needle, start_from, occ, gaps, found_clean,
                   found, split, req, anchor_match, resp, split_calls, opt, out_dir>>

\* create_word_document_from_markdown(md, str(docx_path))
ExportWriteDocx(r) ==
    /\ exports[r].pc = "versioned"
    /\ out_dir' = WriteFile(out_dir, exports[r].v, "docx", r)
    /\ exports' = [exports EXCEPT ![r].pc = "docx_written"]
    /\ UNCHANGED <<pc, raw, schema, needle, start_from, occ, gaps, found_clean,
                   found, split, req, anchor_match, resp, split_calls, opt>>

\* create_pdf_from_markdown(md, str(pdf_path)); return ExportResp(ok=True, ...)
ExportWritePdf(r) ==
    /\ exports[r].pc = "docx_written"
    /\ out_dir' = WriteFile(out_dir, exports[r].v, "pdf", r)
    /\ exports' = [exports EXCEPT ![r].pc = "done"]
    /\ UNCHANGED <<pc, raw, schema, needle, start_from, occ, gaps, found_clean,
                   found, split, req, anchor_match, resp, split_calls, opt>>

NextExport ==
    \E r \in ExportIds :
        \/ ExportNextVersion(r)
        \/ ExportWriteDocx(r)
        \/ ExportWritePdf(r)

SpecExport == InitExport /\ [][NextExport]_vars

----------------------------------------------------------------------------
(* Claim about export versions.                                            *)

Versioned(r) == exports[r].pc # "start"

(* C30: export versions are never reused.  Under any interleaving of       *)
(* export requests for one job and base name, each request gets a version  *)
(* above every version present in the directory and different from every   *)
(* other request's, its .docx and .pdf carry that one version, and no      *)
(* request overwrites a file written by another.                           *)
C30_VersionsNeverReused ==
    /\ [](pc = "export" =>
            /\ \A r1, r2 \in ExportIds :
                  (r1 # r2 /\ Versioned(r1) /\ Versioned(r2)) =>
                      exports[r1].v # exports[r2].v
            /\ \A f \in out_dir : f.by \in ExportIds => f.v = exports[f.by].v)
    /\ [][pc = "export" =>
            /\ \A r \in ExportIds :
                  (~Versioned(r) /\ Versioned(r)') =>
                      \A f \in out_dir : exports'[r].v > f.v
            /\ \A f \in out_dir :
                  \E g \in out_dir' : g.v = f.v /\ g.ext = f.ext /\ g.by = f.by]_vars

\* Requests served one after the other: at most one is between its
\* version lookup and its last write.
ExportsSerial ==
    \A r1, r2 \in ExportIds :
        (exports[r1].pc \in {"versioned", "docx_written"}
         /\ exports[r2].pc \in {"versioned", "docx_written"}) => r1 = r2

=============================================================================
